---- MODULE Spec2Model ----
(***************************************************************************)
(* Retrieval-and-filtering query engine of protein-seqyyy:                 *)
(*   backend/protein_query_engine.py  (ProteinQueryEngine, ChromaDB)       *)
(*   backend/neon_query_engine.py     (NeonQueryEngine, NeonDB/pgvector)   *)
(*   backend/neon_vector_store.py     (NeonVectorStore)                    *)
(* Floats are exact rationals <<numerator, denominator>>; Python strings   *)
(* are TLA+ strings; Optional[x] is a sequence of length 0 (None) or 1.    *)
(* An intermediate result that is used more than once is bound once, as    *)
(* the element of a singleton set: CHOOSE r \in {F(x) : x \in {e}} : TRUE   *)
(* is F(e) with e evaluated a single time, as the assignment x = e in the  *)
(* source is.                                                              *)
(***************************************************************************)
EXTENDS Integers, Sequences, FiniteSets, TLC

\* The stores, the engines' last call and the pure helpers' arguments.
VARIABLES hits, out, corpus, chroma, neon, last

\* The other components, each the state of one object or running function:
\* first (the first query an engine answered), sessions (the database
\* sessions open on the NeonDB table), uniprot (a UniProtClient and the
\* threads calling it), migration (a run of migrate_chroma_to_neon), indexer
\* (a run of index_run_all) and tracker (an IndexingStatsTracker).
VARIABLES first, sessions, uniprot, migration, indexer, tracker

storeVars == <<hits, out, corpus, chroma, neon, last>>

otherVars == <<first, sessions, uniprot, migration, indexer, tracker>>

vars == <<hits, out, corpus, chroma, neon, last, first, sessions, uniprot, migration, indexer, tracker>>

\* A component that is not part of the specification at hand.
Idle == [op |-> "none"]

OthersIdle ==
    /\ first = Idle
    /\ sessions = Idle
    /\ uniprot = Idle
    /\ migration = Idle
    /\ indexer = Idle
    /\ tracker = Idle

(***************************************************************************)
(* Bounds of the model.                                                    *)
(***************************************************************************)
MaxHits == 3

MaxChunks == 2

MaxBatch == 2

(***************************************************************************)
(* Python values.                                                          *)
(***************************************************************************)
None == <<>>

Some(x) == <<x>>

\* Python truthiness of an Optional[str] argument: None and "" are falsy.
TruthyStr(opt) == opt # None /\ opt[1] # ""

\* Python truthiness of an Optional[List[str]] argument: None and [] are falsy.
TruthyList(opt) == opt # None /\ opt[1] # <<>>

\* str.upper() on the symbols the model uses.
ToUpper ==
    [s \in {"apoe", "Apoe", "tp53", "sirt6"} |->
        CASE s = "apoe" -> "APOE"
          [] s = "Apoe" -> "APOE"
          [] s = "tp53" -> "TP53"
          [] s = "sirt6" -> "SIRT6"]

Upper(s) == IF s \in DOMAIN ToUpper THEN ToUpper[s] ELSE s

\* A metadata value holding a list: a Python list, the JSON text of a list
\* (json.dumps), the empty string, or a string that is not JSON.
PyList(l) == [type |-> "list", val |-> l]

JsonDumps(l) == [type |-> "jsonstr", val |-> l]

EmptyStr == [type |-> "emptystr", val |-> <<>>]

BadStr == [type |-> "badstr", val |-> <<>>]

\* Elements of a sequence as a set.
Range(s) == {s[i] : i \in 1..Len(s)}

\* s[:n]
Prefix(s, n) ==
    CHOOSE r \in {SubSeq(x, 1, IF n < Len(x) THEN n ELSE Len(x)) : x \in {s}} : TRUE

\* A list comprehension or an append loop: the list is built once, element by
\* element.
ListOf(s) == SubSeq(s, 1, Len(s))

(***************************************************************************)
(* Exact rationals for Python floats.                                      *)
(***************************************************************************)
RECURSIVE Gcd(_, _)
Gcd(a, b) ==
    CHOOSE r \in {IF y = 0 THEN x ELSE Gcd(y, x % y) : x \in {a}, y \in {b}} : TRUE

Abs(x) == IF x < 0 THEN -x ELSE x

\* n/d in lowest terms with a positive denominator.
Rat(n, d) ==
    CHOOSE r \in {IF x = 0 THEN <<0, 1>>
                  ELSE CHOOSE q \in {<<((IF y < 0 THEN -1 ELSE 1) * x) \div g,
                                       ((IF y < 0 THEN -1 ELSE 1) * y) \div g>>
                                     : g \in {Gcd(Abs(x), Abs(y))}} : TRUE
                  : x \in {n}, y \in {d}} : TRUE

RAdd(a, b) ==
    CHOOSE r \in {Rat(x[1] * y[2] + y[1] * x[2], x[2] * y[2]) : x \in {a}, y \in {b}} : TRUE

RSub(a, b) ==
    CHOOSE r \in {Rat(x[1] * y[2] - y[1] * x[2], x[2] * y[2]) : x \in {a}, y \in {b}} : TRUE

RDiv(a, b) ==
    CHOOSE r \in {Rat(x[1] * y[2], x[2] * y[1]) : x \in {a}, y \in {b}} : TRUE

RLess(a, b) ==
    CHOOSE r \in {x[1] * y[2] < y[1] * x[2] : x \in {a}, y \in {b}} : TRUE

RLeq(a, b) ==
    CHOOSE r \in {x[1] * y[2] <= y[1] * x[2] : x \in {a}, y \in {b}} : TRUE

RMax(a, b) ==
    CHOOSE r \in {IF RLess(x, y) THEN y ELSE x : x \in {a}, y \in {b}} : TRUE

RMin(a, b) ==
    CHOOSE r \in {IF RLess(y, x) THEN y ELSE x : x \in {a}, y \in {b}} : TRUE

RZero == <<0, 1>>

ROne == <<1, 1>>

(***************************************************************************)
(* ChunkResult of protein_query_engine.py: the properties read metadata    *)
(* that ChromaDB stores flat (lists as JSON text).                         *)
(***************************************************************************)
ChunkResult(chunk_id, text, score, metadata) ==
    [chunk_id |-> chunk_id, text |-> text, score |-> score, metadata |-> metadata]

\* json.loads(v) if v else [], [] on a parse error; a list as it is.
JsonListProperty(v) ==
    CASE v.type = "jsonstr" -> v.val
      [] v.type = "emptystr" -> <<>>
      [] v.type = "badstr" -> <<>>
      [] v.type = "list" -> v.val
      [] OTHER -> <<>>

proteins_mentioned(chunk) == JsonListProperty(chunk.metadata.proteins_mentioned)

aging_theories(chunk) == JsonListProperty(chunk.metadata.aging_theories)

pmcid(chunk) == chunk.metadata.pmcid

pmid(chunk) == chunk.metadata.pmid

title(chunk) == chunk.metadata.title

year(chunk) == chunk.metadata.year

(***************************************************************************)
(* ProteinQueryEngine._filter_chunks                                       *)
(***************************************************************************)
\* A plausible slip: the comparison without upper-casing the chunk's entries.
ProteinMatchesCaseSensitive(chunk, protein_upper) ==
    protein_upper \in Range(proteins_mentioned(chunk))

\* protein_upper in [p.upper() for p in chunk.proteins_mentioned]
ProteinMatches(chunk, protein_upper) ==
    protein_upper \in {Upper(p) : p \in Range(proteins_mentioned(chunk))}

\* any(theory in theory_set for theory in chunk.aging_theories)
TheoryMatches(chunk, theory_set) ==
    \E theory \in Range(aging_theories(chunk)) : theory \in theory_set

\* A plausible slip: the survivors are collected in front of one another, so
\* the list comes back in reverse.
_filter_chunks_prepending(chunks, protein_filter, theory_filters) ==
    LET byProtein ==
            IF TruthyStr(protein_filter)
            THEN LET protein_upper == Upper(protein_filter[1])
                     Keep(c) == ProteinMatches(c, protein_upper)
                 IN  SelectSeq(chunks, Keep)
            ELSE chunks
        byTheory ==
            IF TruthyList(theory_filters)
            THEN LET theory_set == Range(theory_filters[1])
                     Keep(c) == TheoryMatches(c, theory_set)
                 IN  SelectSeq(byProtein, Keep)
            ELSE byProtein
    IN  [i \in 1..Len(byTheory) |-> byTheory[Len(byTheory) + 1 - i]]

\* A plausible slip: the protein filter is kept on the engine, and the
\* filter of the call before still applies next to the new one.
_filter_chunks_sticky(chunks, protein_filter, theory_filters) ==
    LET kept == IF last.op = "query" /\ TruthyStr(last.protein_filter)
                THEN {Upper(last.protein_filter[1])} ELSE {}
        byProtein ==
            IF TruthyStr(protein_filter)
            THEN LET protein_upper == Upper(protein_filter[1])
                     Keep(c) == \A u \in kept \cup {protein_upper} : ProteinMatches(c, u)
                 IN  SelectSeq(chunks, Keep)
            ELSE chunks
    IN  IF TruthyList(theory_filters)
        THEN LET theory_set == Range(theory_filters[1])
                 Keep(c) == TheoryMatches(c, theory_set)
             IN  SelectSeq(byProtein, Keep)
        ELSE byProtein

_filter_chunks(chunks, protein_filter, theory_filters) ==
    LET byProtein ==
            IF TruthyStr(protein_filter)
            THEN LET protein_upper == Upper(protein_filter[1])
                     Keep(c) == ProteinMatches(c, protein_upper)
                 IN  SelectSeq(chunks, Keep)
            ELSE chunks
    IN  IF TruthyList(theory_filters)
        THEN LET theory_set == Range(theory_filters[1])
                 Keep(c) == TheoryMatches(c, theory_set)
             IN  SelectSeq(byProtein, Keep)
        ELSE byProtein

(***************************************************************************)
(* ProteinQueryEngine._extract_citations / _calculate_confidence           *)
(***************************************************************************)
Citation(chunk) ==
    [pmcid |-> pmcid(chunk), pmid |-> pmid(chunk), title |-> title(chunk),
     year |-> year(chunk), relevance_score |-> chunk.score]

\* A plausible slip: a later chunk of the same paper overwrites the entry, so
\* the citation carries the last-seen chunk's fields and score.
RECURSIVE CitationsDictLastSeen(_, _)
CitationsDictLastSeen(chunks, n) ==
    IF n = 0 THEN <<>>
    ELSE CHOOSE r \in
           {IF pmcid(chunks[n]) = "" THEN seen
            ELSE IF pmcid(chunks[n]) \in {c.pmcid : c \in Range(seen)}
                 THEN [i \in 1..Len(seen) |->
                         IF seen[i].pmcid = pmcid(chunks[n])
                         THEN Citation(chunks[n]) ELSE seen[i]]
                 ELSE Append(seen, Citation(chunks[n]))
            : seen \in {CitationsDictLastSeen(chunks, n - 1)}} : TRUE

\* A plausible slip: the "pmcid and" of the test is missing, so chunks
\* without a pmcid are grouped under the empty key and cited.
RECURSIVE CitationsDictKeepEmpty(_, _)
CitationsDictKeepEmpty(chunks, n) ==
    IF n = 0 THEN <<>>
    ELSE CHOOSE r \in
           {IF pmcid(chunks[n]) \notin {c.pmcid : c \in Range(seen)}
            THEN Append(seen, Citation(chunks[n]))
            ELSE seen
            : seen \in {CitationsDictKeepEmpty(chunks, n - 1)}} : TRUE

\* citations_dict after the first n chunks of the loop, as the list of its
\* values in insertion (first-seen) order: a chunk adds an entry only if its
\* pmcid is non-empty and not yet a key.
RECURSIVE CitationsDict(_, _)
CitationsDict(chunks, n) ==
    IF n = 0 THEN <<>>
    ELSE CHOOSE r \in
           {IF pmcid(chunks[n]) # "" /\ pmcid(chunks[n]) \notin {c.pmcid : c \in Range(seen)}
            THEN Append(seen, Citation(chunks[n]))
            ELSE seen
            : seen \in {CitationsDict(chunks, n - 1)}} : TRUE

\* A plausible slip: c goes in front of the entries of equal score, as an
\* unstable or ascending-then-reversed sort would leave it.
InsertByRelevanceBeforeTies(sorted, c) ==
    CHOOSE r \in
       {SubSeq(sorted, 1, n) \o <<c>> \o SubSeq(sorted, n + 1, Len(sorted))
        : n \in {Cardinality({i \in 1..Len(sorted) :
                     RLess(c.relevance_score, sorted[i].relevance_score)})}} : TRUE

\* Insert c into a list sorted by non-increasing relevance_score, behind
\* every entry whose score is not smaller (Python's sort is stable).
InsertByRelevance(sorted, c) ==
    CHOOSE r \in
       {SubSeq(sorted, 1, n) \o <<c>> \o SubSeq(sorted, n + 1, Len(sorted))
        : n \in {Cardinality({i \in 1..Len(sorted) :
                     RLeq(c.relevance_score, sorted[i].relevance_score)})}} : TRUE

\* sorted(values, key=lambda x: x["relevance_score"], reverse=True), for the
\* first n values.
RECURSIVE SortedByRelevance(_, _)
SortedByRelevance(cs, n) ==
    IF n = 0 THEN <<>>
    ELSE CHOOSE r \in {InsertByRelevance(sorted, cs[n])
                       : sorted \in {SortedByRelevance(cs, n - 1)}} : TRUE

_extract_citations(chunks) ==
    CHOOSE r \in {SortedByRelevance(d, Len(d)) : d \in {CitationsDict(chunks, Len(chunks))}} : TRUE

\* chunks[:3]
ConfidenceTopN == 3

\* sum of the first n scores
RECURSIVE RSum(_, _)
RSum(scores, n) == IF n = 0 THEN RZero ELSE RAdd(RSum(scores, n - 1), scores[n])

\* A plausible slip: the mean is returned without min(max(., 0.0), 1.0).
_calculate_confidence_unclamped(chunks) ==
    IF chunks = <<>> THEN RZero
    ELSE CHOOSE r \in
           {RDiv(RSum(top_scores, Len(top_scores)), <<Len(top_scores), 1>>)
            : top_scores \in {[i \in 1..(IF Len(chunks) < ConfidenceTopN THEN Len(chunks)
                                          ELSE ConfidenceTopN) |-> chunks[i].score]}} : TRUE

_calculate_confidence(chunks) ==
    IF chunks = <<>> THEN RZero
    ELSE CHOOSE r \in
           {RMin(RMax(RDiv(RSum(top_scores, Len(top_scores)), <<Len(top_scores), 1>>),
                      RZero), ROne)
            : top_scores \in {[i \in 1..(IF Len(chunks) < ConfidenceTopN THEN Len(chunks)
                                          ELSE ConfidenceTopN) |-> chunks[i].score]}} : TRUE

(***************************************************************************)
(* Vectors and the cosine distance both stores rank by (ChromaDB           *)
(* collections are created with hnsw:space = cosine; pgvector's <=>).      *)
(* The vectors of the model have integer norms, so distances are exact.    *)
(***************************************************************************)
\* embedding_dim of the modelled NeonVectorStore instance.
embedding_dim == 2

\* a . b over the first n components
RECURSIVE DotUpTo(_, _, _)
DotUpTo(a, b, n) == IF n = 0 THEN 0 ELSE DotUpTo(a, b, n - 1) + a[n] * b[n]

Dot(a, b) == DotUpTo(a, b, IF Len(a) < Len(b) THEN Len(a) ELSE Len(b))

Isqrt(n) == CHOOSE r \in 0..n : r * r <= n /\ (r + 1) * (r + 1) > n

Norm(a) == Isqrt(Dot(a, a))

\* embedding <=> query: 1 - cos(a, b), in [0, 2]
CosineDistance(a, b) == RSub(ROne, Rat(Dot(a, b), Norm(a) * Norm(b)))

\* The first n rows in ascending distance from q; rows at equal distance keep
\* their stored (insertion) order.
RECURSIVE RankByDistance(_, _, _)
RankByDistance(rows, q, n) ==
    IF n = 0 THEN <<>>
    ELSE CHOOSE r \in
           {CHOOSE s \in
              {SubSeq(ranked, 1, k) \o <<rows[n]>> \o SubSeq(ranked, k + 1, Len(ranked))
               : k \in {Cardinality({i \in 1..Len(ranked) :
                            RLeq(CosineDistance(ranked[i].embedding, q), d)})}} : TRUE
            : ranked \in {RankByDistance(rows, q, n - 1)},
              d \in {CosineDistance(rows[n].embedding, q)}} : TRUE

(***************************************************************************)
(* NeonVectorStore: the table is the list of its rows in insertion order.  *)
(***************************************************************************)
VectorChunk(id, text, embedding, metadata) ==
    [id |-> id, text |-> text, embedding |-> embedding, metadata |-> metadata]

\* dict.get(key, default)
Get(m, key, default) == IF key \in DOMAIN m THEN m[key] ELSE default

\* %s::jsonb of json.dumps(list): the JSONB array stored in the column.
ToJsonb(v) == [type |-> "jsonb", val |-> v.val]

\* A JSONB array read back by psycopg2: a Python list.
FromJsonb(v) == IF v.type = "jsonb" THEN v.val ELSE <<>>

\* The tuple add_chunks builds for one chunk, as the row the INSERT stores.
RowOf(chunk) ==
    [id |-> chunk.id,
     text |-> chunk.text,
     embedding |-> chunk.embedding,
     pmcid |-> Get(chunk.metadata, "pmcid", ""),
     pmid |-> Get(chunk.metadata, "pmid", ""),
     title |-> Get(chunk.metadata, "title", ""),
     year |-> Get(chunk.metadata, "year", 0),
     proteins_mentioned |-> ToJsonb(JsonDumps(Get(chunk.metadata, "proteins_mentioned", <<>>))),
     aging_theories |-> ToJsonb(JsonDumps(Get(chunk.metadata, "aging_theories", <<>>))),
     chunk_index |-> Get(chunk.metadata, "chunk_index", 0)]

\* A plausible slip: a plain INSERT semantics that appends on conflict.
UpsertRowAppend(table, row) == Append(table, row)

\* INSERT ... ON CONFLICT (id) DO UPDATE SET <every column> = EXCLUDED.<column>
UpsertRow(table, row) ==
    IF \E i \in 1..Len(table) : table[i].id = row.id
    THEN ListOf([i \in 1..Len(table) |-> IF table[i].id = row.id THEN row ELSE table[i]])
    ELSE Append(table, row)

\* The first n rows of one statement, upserted in order.
RECURSIVE UpsertRows(_, _, _)
UpsertRows(table, rows, n) ==
    IF n = 0 THEN table
    ELSE CHOOSE r \in {UpsertRow(t, rows[n]) : t \in {UpsertRows(table, rows, n - 1)}} : TRUE

\* A plausible slip: the column accepts a vector of any length.
StatementFailsNoDimCheck(batch) ==
    \E i, j \in 1..Len(batch) : i # j /\ batch[i].id = batch[j].id

\* One execute_values statement fails as a whole when a vector does not have
\* the column's dimension (embedding vector(embedding_dim)), or when two of
\* its rows have the same id (ON CONFLICT DO UPDATE cannot affect a row twice).
StatementFails(batch) ==
    \/ \E i \in 1..Len(batch) : Len(batch[i].embedding) # embedding_dim
    \/ \E i, j \in 1..Len(batch) : i # j /\ batch[i].id = batch[j].id

\* The loop over batches inside one transaction: tx is the table as the
\* transaction sees it, i the 0-based start of the next batch.
RECURSIVE AddBatches(_, _, _, _, _)
AddBatches(tx, chunks, batch_size, i, added) ==
    IF i >= Len(chunks) THEN [raised |-> FALSE, tx |-> tx, added |-> added]
    ELSE CHOOSE r \in
           {IF StatementFails(batch)
            THEN [raised |-> TRUE, tx |-> tx, added |-> added]
            ELSE CHOOSE s \in
                   {AddBatches(t, chunks, batch_size, i + batch_size, added + Len(batch))
                    : t \in {UpsertRows(tx, [k \in 1..Len(batch) |-> RowOf(batch[k])],
                                        Len(batch))}} : TRUE
            : batch \in {SubSeq(chunks, i + 1,
                                IF i + batch_size < Len(chunks) THEN i + batch_size
                                ELSE Len(chunks))}} : TRUE

\* A plausible slip: conn.commit() sits inside the loop, so the batches before
\* a failing one stay written.
add_chunks_commit_per_batch(table, chunks, batch_size) ==
    CHOOSE r \in
       {[raised |-> run.raised, table |-> run.tx,
         returned |-> IF run.raised THEN 0 ELSE run.added]
        : run \in {AddBatches(table, chunks, batch_size, 0, 0)}} : TRUE

\* add_chunks: conn.commit() is reached only after the last batch; an
\* exception closes the connection and the transaction is rolled back.
add_chunks(table, chunks, batch_size) ==
    CHOOSE r \in
       {IF run.raised
        THEN [raised |-> TRUE, table |-> table, returned |-> 0]
        ELSE [raised |-> FALSE, table |-> run.tx, returned |-> run.added]
        : run \in {AddBatches(table, chunks, batch_size, 0, 0)}} : TRUE

\* The metadata dict search builds from a row.
RowMetadata(row) ==
    [pmcid |-> row.pmcid, pmid |-> row.pmid, title |-> row.title, year |-> row.year,
     proteins_mentioned |-> PyList(FromJsonb(row.proteins_mentioned)),
     aging_theories |-> PyList(FromJsonb(row.aging_theories)),
     chunk_index |-> row.chunk_index]

\* 1 - (embedding <=> q) as score
SearchResult(row, q) ==
    [id |-> row.id, text |-> row.text,
     score |-> RSub(ROne, CosineDistance(row.embedding, q)),
     metadata |-> RowMetadata(row)]

\* embedding <=> q raises for vectors of different dimensions; it is
\* evaluated once per row, so never on an empty table.
SearchFails(table, q) ==
    \E i \in 1..Len(table) : Len(table[i].embedding) # Len(q)

\* search: SELECT ... ORDER BY embedding <=> q LIMIT top_k. The statement has
\* no WHERE clause: protein_filter and theory_filter are accepted and unused.
search(table, query_embedding, top_k, protein_filter, theory_filter) ==
    CHOOSE r \in
       {ListOf([i \in 1..(IF top_k < Len(ranked) THEN top_k ELSE Len(ranked)) |->
                   SearchResult(ranked[i], query_embedding)])
        : ranked \in {RankByDistance(table, query_embedding, Len(table))}} : TRUE

\* SELECT COUNT(*)
count(table) == Len(table)

\* A plausible slip: conn.commit() is missing, so closing the connection
\* rolls the TRUNCATE back.
delete_all_uncommitted(table) == table

\* TRUNCATE TABLE
delete_all(table) == <<>>

(***************************************************************************)
(* The ChromaDB collection behind ProteinQueryEngine.                      *)
(***************************************************************************)
\* clean_metadata_for_storage: lists are stored as their JSON text.
clean_metadata_for_storage(meta) ==
    [pmcid |-> meta.pmcid, pmid |-> meta.pmid, title |-> meta.title, year |-> meta.year,
     proteins_mentioned |-> JsonDumps(meta.proteins_mentioned),
     aging_theories |-> JsonDumps(meta.aging_theories),
     chunk_index |-> meta.chunk_index]

ChromaRecord(chunk) ==
    [id |-> chunk.id, document |-> chunk.text, embedding |-> chunk.embedding,
     metadata |-> clean_metadata_for_storage(chunk.metadata)]

\* collection.upsert(ids, documents, metadatas, embeddings)
ChromaUpsert(collection, chunks) ==
    UpsertRows(collection, [k \in 1..Len(chunks) |-> ChromaRecord(chunks[k])], Len(chunks))

\* collection.query raises when the query vector does not have the dimension
\* of the collection's vectors; a collection without vectors has none.
ChromaQueryFails(collection, q) ==
    \E i \in 1..Len(collection) : Len(collection[i].embedding) # Len(q)

\* collection.query(query_embeddings=[q], n_results=n, include=[...]):
\* the n nearest records with their distances.
ChromaQuery(collection, q, n_results) ==
    CHOOSE r \in
       {ListOf([i \in 1..(IF n_results < Len(ranked) THEN n_results ELSE Len(ranked)) |->
                   [id |-> ranked[i].id, distance |-> CosineDistance(ranked[i].embedding, q),
                    document |-> ranked[i].document, metadata |-> ranked[i].metadata]])
        : ranked \in {RankByDistance(collection, q, Len(collection))}} : TRUE

(***************************************************************************)
(* The gateways: what one call to the embedding or the LLM provider does.  *)
(***************************************************************************)
\* The vector the embedding gateway returns for the query text.
QueryEmbedding == <<1, 0>>

\* A vector of another length than the stores' vectors.
WrongLengthEmbedding == <<1, 0, 0>>

\* response.data[0].embedding: the gateway's vector is returned as it comes,
\* whatever its length.
_create_query_embedding(embed) ==
    IF embed = "wrong_length" THEN WrongLengthEmbedding ELSE QueryEmbedding

LlmAnswer == "synthesized answer"

LlmErrorAnswer == "Error generating response: gateway failure"

LlmNoClientAnswer == "LLM client not initialized"

\* top_k * 5
OverFetchFactor == 5

\* sorted(set_of_strings): the strings of the model in code-point order.
StringOrder ==
    <<"APOE", "Apoe", "SIRT6", "TP53", "apoe", "inflammation", "mitochondrial", "telomere">>

Sorted(S) == SelectSeq(StringOrder, LAMBDA x : x \in S)

\* A plausible slip: the gateway's exception is not caught.
_synthesize_answer_uncaught(query, chunks, citations, llm) ==
    CASE llm = "no_client" -> [raised |-> FALSE, called |-> FALSE, answer |-> LlmNoClientAnswer]
      [] llm = "ok" -> [raised |-> FALSE, called |-> TRUE, answer |-> LlmAnswer]
      [] OTHER -> [raised |-> TRUE, called |-> TRUE, answer |-> ""]

\* ProteinQueryEngine._synthesize_answer: without a client a fixed
\* message and no call; otherwise the prompt is built from chunks[:5] and
\* citations[:5] and sent; any exception of the call (an error, a timeout)
\* is caught and turned into an error string.
_synthesize_answer(query, chunks, citations, llm) ==
    CASE llm = "no_client" -> [raised |-> FALSE, called |-> FALSE, answer |-> LlmNoClientAnswer]
      [] llm = "ok" -> [raised |-> FALSE, called |-> TRUE, answer |-> LlmAnswer]
      [] OTHER -> [raised |-> FALSE, called |-> TRUE, answer |-> LlmErrorAnswer]

\* NeonQueryEngine._synthesize_answer
Neon_synthesize_answer(query, chunks, citations, llm) ==
    CASE llm = "no_client" -> [raised |-> FALSE, called |-> FALSE, answer |-> LlmNoClientAnswer]
      [] llm = "ok" -> [raised |-> FALSE, called |-> TRUE, answer |-> LlmAnswer]
      [] OTHER -> [raised |-> FALSE, called |-> TRUE, answer |-> LlmErrorAnswer]

\* A plausible slip: the exception is swallowed and an empty result returned.
RaisedSwallowed(requested) ==
    [raised |-> FALSE, requested |-> requested, llm_called |-> FALSE, found |-> <<>>,
     result |-> Some([query |-> "Q", answer |-> "", chunks |-> <<>>, citations |-> <<>>,
                      confidence |-> RZero, proteins_mentioned |-> <<>>,
                      theories_identified |-> <<>>,
                      filters_applied |-> [protein |-> None, theories |-> None]])]

\* query has no try/except around the embedding call or the store call: an
\* exception of either leaves the caller with the exception and no
\* QueryResult. requested is the number of candidates the store was asked
\* for before the exception (0: the store was not reached).
Raised(requested) ==
    [raised |-> TRUE, requested |-> requested, llm_called |-> FALSE, found |-> <<>>,
     result |-> None]

QueryResult(query, answer, chunks, citations, confidence, proteins, theories, filters) ==
    [query |-> query, answer |-> answer, chunks |-> chunks, citations |-> citations,
     confidence |-> confidence, proteins_mentioned |-> proteins,
     theories_identified |-> theories, filters_applied |-> filters]

(***************************************************************************)
(* ProteinQueryEngine.query                                                *)
(***************************************************************************)
\* A plausible slip: no over-fetch when filters are given.
SearchKNoOverFetch(top_k, protein_filter, theory_filters) == top_k

\* search_k = top_k * 5 if (protein_filter or theory_filters) else top_k
SearchK(top_k, protein_filter, theory_filters) ==
    IF TruthyStr(protein_filter) \/ TruthyList(theory_filters)
    THEN top_k * OverFetchFactor
    ELSE top_k

\* score = 1.0 / (1.0 + distance)
ChromaScore(distance) == RDiv(ROne, RAdd(ROne, distance))

\* A plausible slip: the LLM is consulted whenever synthesize is set.
ShouldSynthesizeAlways(synthesize, chunks) == synthesize

\* if synthesize and chunks:
ShouldSynthesize(synthesize, chunks) == synthesize /\ chunks # <<>>

\* The chunk results built from the collection's answer.
ChromaChunks(results) ==
    ListOf([i \in 1..Len(results) |->
              ChunkResult(results[i].id, results[i].document,
                          ChromaScore(results[i].distance), results[i].metadata)])

\* A plausible slip: citations and confidence are built from the filtered
\* list before it is cut to top_k.
ProteinQueryEngine_query_cite_first(collection, query_text, top_k, protein_filter, theory_filters, synthesize, embed, store, llm) ==
    IF embed = "error" THEN Raised(0)
    ELSE
    LET query_embedding == _create_query_embedding(embed)
        search_k == SearchK(top_k, protein_filter, theory_filters)
        Filtered(found) ==
            IF TruthyStr(protein_filter) \/ TruthyList(theory_filters)
            THEN _filter_chunks(found, protein_filter, theory_filters)
            ELSE found
        Synthesized(chunks, citations) ==
            IF ShouldSynthesize(synthesize, chunks)
            THEN _synthesize_answer(query_text, chunks, citations, llm)
            ELSE [raised |-> FALSE, called |-> FALSE, answer |-> ""]
        Returned(found, filtered, chunks, citations, synth) ==
            IF synth.raised THEN [Raised(search_k) EXCEPT !.llm_called = synth.called]
            ELSE [raised |-> FALSE, requested |-> search_k, llm_called |-> synth.called,
                  found |-> found,
                  result |->
                    Some(QueryResult(
                        query_text, synth.answer, chunks, citations,
                        _calculate_confidence(filtered),
                        Sorted(UNION {Range(proteins_mentioned(chunks[i])) : i \in 1..Len(chunks)}),
                        Sorted(UNION {Range(aging_theories(chunks[i])) : i \in 1..Len(chunks)}),
                        [protein |-> protein_filter, theories |-> theory_filters]))]
        AfterCitations(found, filtered, chunks, citations) ==
            CHOOSE r \in {Returned(found, filtered, chunks, citations, synth)
                         : synth \in {Synthesized(chunks, citations)}} : TRUE
        AfterFilter(found, filtered) ==
            CHOOSE r \in {AfterCitations(found, filtered, chunks, citations)
                         : chunks \in {Prefix(filtered, top_k)},
                           citations \in {_extract_citations(filtered)}} : TRUE
        AfterSearch(found) ==
            CHOOSE r \in {AfterFilter(found, filtered) : filtered \in {Filtered(found)}} : TRUE
    IN  IF store = "error" \/ ChromaQueryFails(collection, query_embedding)
        THEN Raised(search_k)
        ELSE CHOOSE r \in {AfterSearch(ChromaChunks(results))
                           : results \in {ChromaQuery(collection, query_embedding, search_k)}} : TRUE

\* A plausible slip: the proteins and theories are collected from the hits
\* before they are filtered and cut to top_k.
ProteinQueryEngine_query_aggregate_first(collection, query_text, top_k, protein_filter, theory_filters, synthesize, embed, store, llm) ==
    IF embed = "error" THEN Raised(0)
    ELSE
    LET query_embedding == _create_query_embedding(embed)
        search_k == SearchK(top_k, protein_filter, theory_filters)
        Filtered(found) ==
            IF TruthyStr(protein_filter) \/ TruthyList(theory_filters)
            THEN _filter_chunks(found, protein_filter, theory_filters)
            ELSE found
        Synthesized(chunks, citations) ==
            IF ShouldSynthesize(synthesize, chunks)
            THEN _synthesize_answer(query_text, chunks, citations, llm)
            ELSE [raised |-> FALSE, called |-> FALSE, answer |-> ""]
        Returned(found, chunks, citations, synth) ==
            IF synth.raised THEN [Raised(search_k) EXCEPT !.llm_called = synth.called]
            ELSE [raised |-> FALSE, requested |-> search_k, llm_called |-> synth.called,
                  found |-> found,
                  result |->
                    Some(QueryResult(
                        query_text, synth.answer, chunks, citations,
                        _calculate_confidence(chunks),
                        Sorted(UNION {Range(proteins_mentioned(found[i])) : i \in 1..Len(found)}),
                        Sorted(UNION {Range(aging_theories(found[i])) : i \in 1..Len(found)}),
                        [protein |-> protein_filter, theories |-> theory_filters]))]
        AfterCitations(found, chunks, citations) ==
            CHOOSE r \in {Returned(found, chunks, citations, synth)
                         : synth \in {Synthesized(chunks, citations)}} : TRUE
        AfterTruncation(found, chunks) ==
            CHOOSE r \in {AfterCitations(found, chunks, citations)
                         : citations \in {_extract_citations(chunks)}} : TRUE
        AfterSearch(found) ==
            CHOOSE r \in {AfterTruncation(found, chunks)
                         : chunks \in {Prefix(Filtered(found), top_k)}} : TRUE
    IN  IF store = "error" \/ ChromaQueryFails(collection, query_embedding)
        THEN Raised(search_k)
        ELSE CHOOSE r \in {AfterSearch(ChromaChunks(results))
                           : results \in {ChromaQuery(collection, query_embedding, search_k)}} : TRUE

\* ProteinQueryEngine.query. embed, store and llm are what the embedding
\* gateway, the collection and the LLM gateway do in this call; found is the
\* list of chunk results built from the collection's answer.
ProteinQueryEngine_query(collection, query_text, top_k, protein_filter, theory_filters, synthesize, embed, store, llm) ==
    IF embed = "error" THEN Raised(0)
    ELSE
    LET query_embedding == _create_query_embedding(embed)
        search_k == SearchK(top_k, protein_filter, theory_filters)
        Filtered(found) ==
            IF TruthyStr(protein_filter) \/ TruthyList(theory_filters)
            THEN _filter_chunks(found, protein_filter, theory_filters)
            ELSE found
        Synthesized(chunks, citations) ==
            IF ShouldSynthesize(synthesize, chunks)
            THEN _synthesize_answer(query_text, chunks, citations, llm)
            ELSE [raised |-> FALSE, called |-> FALSE, answer |-> ""]
        Returned(found, chunks, citations, synth) ==
            IF synth.raised THEN [Raised(search_k) EXCEPT !.llm_called = synth.called]
            ELSE [raised |-> FALSE, requested |-> search_k, llm_called |-> synth.called,
                  found |-> found,
                  result |->
                    Some(QueryResult(
                        query_text, synth.answer, chunks, citations,
                        _calculate_confidence(chunks),
                        Sorted(UNION {Range(proteins_mentioned(chunks[i])) : i \in 1..Len(chunks)}),
                        Sorted(UNION {Range(aging_theories(chunks[i])) : i \in 1..Len(chunks)}),
                        [protein |-> protein_filter, theories |-> theory_filters]))]
        AfterCitations(found, chunks, citations) ==
            CHOOSE r \in {Returned(found, chunks, citations, synth)
                         : synth \in {Synthesized(chunks, citations)}} : TRUE
        AfterTruncation(found, chunks) ==
            CHOOSE r \in {AfterCitations(found, chunks, citations)
                         : citations \in {_extract_citations(chunks)}} : TRUE
        AfterSearch(found) ==
            CHOOSE r \in {AfterTruncation(found, chunks)
                         : chunks \in {Prefix(Filtered(found), top_k)}} : TRUE
    IN  IF store = "error" \/ ChromaQueryFails(collection, query_embedding)
        THEN Raised(search_k)
        ELSE CHOOSE r \in {AfterSearch(ChromaChunks(results))
                           : results \in {ChromaQuery(collection, query_embedding, search_k)}} : TRUE

(***************************************************************************)
(* NeonQueryEngine: its ChunkResult reads the lists search returns.        *)
(***************************************************************************)
\* proteins if isinstance(proteins, list) else []
NeonListProperty(v) == IF v.type = "list" THEN v.val ELSE <<>>

Neon_proteins_mentioned(chunk) == NeonListProperty(chunk.metadata.proteins_mentioned)

Neon_aging_theories(chunk) == NeonListProperty(chunk.metadata.aging_theories)

Neon_extract_citations(chunks) ==
    CHOOSE r \in {SortedByRelevance(d, Len(d)) : d \in {CitationsDict(chunks, Len(chunks))}} : TRUE

Neon_calculate_confidence(chunks) ==
    IF chunks = <<>> THEN RZero
    ELSE CHOOSE r \in
           {RMin(RMax(RDiv(RSum(top_scores, Len(top_scores)), <<Len(top_scores), 1>>),
                      RZero), ROne)
            : top_scores \in {[i \in 1..(IF Len(chunks) < ConfidenceTopN THEN Len(chunks)
                                          ELSE ConfidenceTopN) |-> chunks[i].score]}} : TRUE

\* if synthesize and chunks:
Neon_ShouldSynthesize(synthesize, chunks) == synthesize /\ chunks # <<>>

\* NeonQueryEngine.query. embed, store and llm are what the embedding
\* gateway, the database and the LLM gateway do in this call; found is the
\* list of chunk results built from the store's answer.
NeonQueryEngine_query(table, query_text, top_k, protein_filter, theory_filters, synthesize, embed, store, llm) ==
    IF embed = "error" THEN Raised(0)
    ELSE
    LET query_embedding == _create_query_embedding(embed)
        theory_filter == IF TruthyList(theory_filters) THEN Some(theory_filters[1][1]) ELSE None
        Chunks(results) ==
            ListOf([i \in 1..Len(results) |->
                      ChunkResult(results[i].id, results[i].text, results[i].score,
                                  results[i].metadata)])
        Synthesized(chunks, citations) ==
            IF Neon_ShouldSynthesize(synthesize, chunks)
            THEN Neon_synthesize_answer(query_text, chunks, citations, llm)
            ELSE [raised |-> FALSE, called |-> FALSE, answer |-> ""]
        Returned(chunks, citations, synth) ==
            IF synth.raised THEN [Raised(top_k) EXCEPT !.llm_called = synth.called]
            ELSE [raised |-> FALSE, requested |-> top_k, llm_called |-> synth.called,
                  found |-> chunks,
                  result |->
                    Some(QueryResult(
                        query_text, synth.answer, chunks, citations,
                        Neon_calculate_confidence(chunks),
                        Sorted(UNION {Range(Neon_proteins_mentioned(chunks[i])) : i \in 1..Len(chunks)}),
                        Sorted(UNION {Range(Neon_aging_theories(chunks[i])) : i \in 1..Len(chunks)}),
                        [protein |-> protein_filter, theories |-> theory_filters]))]
        AfterCitations(chunks, citations) ==
            CHOOSE r \in {Returned(chunks, citations, synth)
                         : synth \in {Synthesized(chunks, citations)}} : TRUE
        AfterSearch(chunks) ==
            CHOOSE r \in {AfterCitations(chunks, citations)
                         : citations \in {Neon_extract_citations(chunks)}} : TRUE
    IN  IF store = "error" \/ SearchFails(table, query_embedding)
        THEN Raised(top_k)
        ELSE CHOOSE r \in {AfterSearch(Chunks(results))
                           : results \in {search(table, query_embedding, top_k,
                                                 protein_filter, theory_filter)}} : TRUE

(***************************************************************************)
(* Inputs of the pure helpers: hit lists of at most MaxHits chunks, the    *)
(* chunk ids distinct as in a store's answer.                              *)
(***************************************************************************)
ChunkIds == <<"c1", "c2", "c3", "c4", "c5", "c6", "c7", "c8">>

ProteinValues ==
    {JsonDumps(<<"APOE">>), JsonDumps(<<"Apoe", "SIRT6">>), JsonDumps(<<"TP53">>),
     PyList(<<"apoe">>), EmptyStr}

TheoryValues ==
    {JsonDumps(<<"telomere">>), JsonDumps(<<"inflammation", "mitochondrial">>),
     JsonDumps(<<>>)}

ProteinFilters == {None, Some(""), Some("apoe"), Some("TP53")}

TheoryFilters ==
    {None, Some(<<>>), Some(<<"telomere">>), Some(<<"mitochondrial", "telomere">>)}

Scores == {<<9, 10>>, <<7, 10>>, <<19, 20>>}

Pmcids == {"", "P1", "P2"}

Titles == {"T1", "T2"}

\* The bibliographic fields a paper title comes with.
PmidOf(t) == IF t = "T1" THEN "111" ELSE "222"

YearOf(t) == IF t = "T1" THEN 2020 ELSE 0

Metadata(pm, t, proteins, theories) ==
    [pmcid |-> pm, pmid |-> PmidOf(t), title |-> t, year |-> YearOf(t),
     proteins_mentioned |-> proteins, aging_theories |-> theories]

NoOutput == [op |-> "none"]

NoCall == [op |-> "none"]

InitFilter ==
    /\ OthersIdle
    /\ \E n \in 0..MaxHits :
         \E f \in [1..n -> ProteinValues \X TheoryValues] :
            hits = [i \in 1..n |->
                      ChunkResult(ChunkIds[i], "text", <<1, 2>>,
                                  Metadata("P1", "T1", f[i][1], f[i][2]))]
    /\ out = NoOutput
    /\ corpus = <<>>
    /\ chroma = <<>>
    /\ neon = <<>>
    /\ last = NoCall

InitCite ==
    /\ OthersIdle
    /\ \E n \in 0..MaxHits :
         \E f \in [1..n -> Scores \X Pmcids \X Titles] :
            hits = [i \in 1..n |->
                      ChunkResult(ChunkIds[i], "text", f[i][1],
                                  Metadata(f[i][2], f[i][3], JsonDumps(<<>>), JsonDumps(<<>>)))]
    /\ out = NoOutput
    /\ corpus = <<>>
    /\ chroma = <<>>
    /\ neon = <<>>
    /\ last = NoCall

\* engine._filter_chunks(hits, protein_filter, theory_filters)
FilterCall ==
    /\ out = NoOutput
    /\ \E p \in ProteinFilters, T \in TheoryFilters :
         out' = [op |-> "filter", protein_filter |-> p, theory_filters |-> T,
                 result |-> _filter_chunks(hits, p, T)]
    /\ UNCHANGED <<hits, corpus, chroma, neon, last>>
    /\ UNCHANGED otherVars

\* engine._extract_citations(hits)
CitationsCall ==
    /\ out = NoOutput
    /\ out' = [op |-> "citations", result |-> _extract_citations(hits)]
    /\ UNCHANGED <<hits, corpus, chroma, neon, last>>
    /\ UNCHANGED otherVars

\* engine._calculate_confidence(hits)
ConfidenceCall ==
    /\ out = NoOutput
    /\ out' = [op |-> "confidence", result |-> _calculate_confidence(hits)]
    /\ UNCHANGED <<hits, corpus, chroma, neon, last>>
    /\ UNCHANGED otherVars

\* Hit lists for _calculate_confidence: longer than the three hits it reads,
\* with scores inside and outside [0, 1].
MaxConfHits == 4

ConfScores == {<<-1, 2>>, <<1, 2>>, <<1, 1>>, <<3, 2>>}

InitConf ==
    /\ OthersIdle
    /\ \E n \in 0..MaxConfHits :
         \E f \in [1..n -> ConfScores] :
            hits = [i \in 1..n |->
                      ChunkResult(ChunkIds[i], "text", f[i],
                                  Metadata("P1", "T1", JsonDumps(<<>>), JsonDumps(<<>>)))]
    /\ out = NoOutput
    /\ corpus = <<>>
    /\ chroma = <<>>
    /\ neon = <<>>
    /\ last = NoCall

\* NeonQueryEngine._calculate_confidence(hits)
NeonConfidenceCall ==
    /\ out = NoOutput
    /\ out' = [op |-> "confidence", engine |-> "neon",
               result |-> Neon_calculate_confidence(hits)]
    /\ UNCHANGED <<hits, corpus, chroma, neon, last>>
    /\ UNCHANGED otherVars

NextConf == ConfidenceCall \/ NeonConfidenceCall

SpecConf == InitConf /\ [][NextConf]_vars

NextFilter == FilterCall

NextCite == CitationsCall \/ ConfidenceCall

SpecFilter == InitFilter /\ [][NextFilter]_vars

SpecCite == InitCite /\ [][NextCite]_vars

(***************************************************************************)
(* The two engines over the same chunks: the corpus is indexed into the    *)
(* ChromaDB collection and written to the NeonDB table, then queried.      *)
(***************************************************************************)
\* Unit-norm directions at cosine distance 0, 2/5 and 1 from QueryEmbedding.
Embeddings == {<<1, 0>>, <<3, 4>>, <<-1, 0>>}

CorpusProteins == {<<"APOE">>, <<"TP53">>}

CorpusTheories == {<<"telomere">>, <<"inflammation", "mitochondrial">>}

\* The paper a chunk comes from: aging_theories is the paper's classification,
\* so chunks with different theories are chunks of different papers.
PaperOf(theories) == IF theories = <<"telomere">> THEN "P1" ELSE "P2"

CorpusChunk(i, e, proteins, theories) ==
    VectorChunk(ChunkIds[i], "text", e,
                [pmcid |-> PaperOf(theories), pmid |-> PmidOf("T1"), title |-> "T1", year |-> YearOf("T1"),
                 proteins_mentioned |-> proteins, aging_theories |-> theories,
                 chunk_index |-> i])

\* batch_size of the migration's add_chunks calls.
MigrationBatchSize == 100

InitQuery ==
    /\ OthersIdle
    /\ \E n \in 0..MaxChunks :
         \E f \in [1..n -> Embeddings \X CorpusProteins \X CorpusTheories] :
            corpus = [i \in 1..n |-> CorpusChunk(i, f[i][1], f[i][2], f[i][3])]
    /\ chroma = ChromaUpsert(<<>>, corpus)
    /\ neon = add_chunks(<<>>, corpus, MigrationBatchSize).table
    /\ hits = <<>>
    /\ out = NoOutput
    /\ last = NoCall

TopKs == {1, 2}

QueryProteinFilters == {None, Some("apoe")}

QueryTheoryFilters == {None, Some(<<"telomere">>), Some(<<"mitochondrial", "telomere">>)}

\* The embedding gateway answers with a vector of the stores' dimension,
\* fails, or answers with a vector of another length.
EmbedOutcomes == {"ok", "error", "wrong_length"}

\* The store answers, or fails (connection lost, statement error).
StoreOutcomes == {"ok", "error"}

LlmOutcomes == {"ok", "error", "timeout"}

\* What the gateways and the store do during one call: the store is reached
\* only after the embedding, the LLM only after the store.
Outcomes(synthesize) ==
    {<<embed, "ok", "ok">> : embed \in EmbedOutcomes \ {"ok"}}
        \cup {<<"ok", "error", "ok">>}
        \cup {<<"ok", "ok", llm>> : llm \in IF synthesize THEN LlmOutcomes ELSE {"ok"}}

QueryCall(engine, top_k, p, T, synthesize, o, r) ==
    [op |-> "query", engine |-> engine, top_k |-> top_k, protein_filter |-> p,
     theory_filters |-> T, synthesize |-> synthesize,
     embed |-> o[1], store |-> o[2], llm |-> o[3],
     raised |-> r.raised, requested |-> r.requested, llm_called |-> r.llm_called,
     found |-> r.found, result |-> r.result]

\* ProteinQueryEngine(...).query(text, top_k, protein_filter, theory_filters, synthesize)
ProteinQuery ==
    /\ last = NoCall
    /\ \E top_k \in TopKs, p \in QueryProteinFilters, T \in QueryTheoryFilters,
          synthesize \in BOOLEAN :
       \E o \in Outcomes(synthesize) :
        \E r \in {ProteinQueryEngine_query(chroma, "Q", top_k, p, T, synthesize, o[1], o[2], o[3])} :
            last' = QueryCall("chroma", top_k, p, T, synthesize, o, r)
    /\ UNCHANGED <<hits, out, corpus, chroma, neon>>
    /\ UNCHANGED otherVars

\* NeonQueryEngine(...).query(text, top_k, protein_filter, theory_filters, synthesize)
NeonQuery ==
    /\ last = NoCall
    /\ \E top_k \in TopKs, p \in QueryProteinFilters, T \in QueryTheoryFilters,
          synthesize \in BOOLEAN :
       \E o \in Outcomes(synthesize) :
        \E r \in {NeonQueryEngine_query(neon, "Q", top_k, p, T, synthesize, o[1], o[2], o[3])} :
            last' = QueryCall("neon", top_k, p, T, synthesize, o, r)
    /\ UNCHANGED <<hits, out, corpus, chroma, neon>>
    /\ UNCHANGED otherVars

NextQuery == ProteinQuery \/ NeonQuery

SpecQuery == InitQuery /\ [][NextQuery]_vars

(***************************************************************************)
(* NeonVectorStore on its own: add_chunks, delete_all, search and count    *)
(* called in any order on a table that starts empty.                       *)
(***************************************************************************)
StoreIds == {"c1", "c2"}

\* What a chunk is written with: two contents with vectors of the store's
\* dimension and one whose vector is too long.
StoreContents == {"old", "new", "long"}

StoreChunk(id, content) ==
    VectorChunk(id,
                IF content = "new" THEN "new text" ELSE "old text",
                CASE content = "old" -> <<1, 0>>
                  [] content = "new" -> <<0, 1>>
                  [] OTHER -> <<1, 0, 0>>,
                [pmcid |-> IF content = "new" THEN "P2" ELSE "P1",
                 pmid |-> PmidOf(IF content = "new" THEN "T2" ELSE "T1"),
                 title |-> IF content = "new" THEN "T2" ELSE "T1",
                 year |-> YearOf(IF content = "new" THEN "T2" ELSE "T1"),
                 proteins_mentioned |-> IF content = "new" THEN <<"TP53">> ELSE <<"APOE">>,
                 aging_theories |-> IF content = "new" THEN <<"telomere">> ELSE <<>>,
                 chunk_index |-> IF content = "new" THEN 1 ELSE 0])

\* The chunks a caller writes.
StoreChunks == {StoreChunk(id, content) : id \in StoreIds, content \in StoreContents}

BatchSizes == {1, 2}

InitStore ==
    /\ OthersIdle
    /\ neon = <<>>
    /\ corpus = <<>>
    /\ chroma = <<>>
    /\ hits = <<>>
    /\ out = NoOutput
    /\ last = NoCall

\* store.add_chunks(chunks, batch_size)
AddChunks ==
    \E n \in 0..MaxBatch, batch_size \in BatchSizes :
      \E chunks \in [1..n -> StoreChunks] :
        \E r \in {add_chunks(neon, chunks, batch_size)} :
          /\ neon' = r.table
          /\ last' = [op |-> "add_chunks", chunks |-> chunks, batch_size |-> batch_size,
                      raised |-> r.raised, returned |-> r.returned, before |-> neon]
          /\ UNCHANGED <<hits, out, corpus, chroma>>
          /\ UNCHANGED otherVars

\* store.delete_all()
DeleteAll ==
    /\ neon' = delete_all(neon)
    /\ last' = [op |-> "delete_all", before |-> neon]
    /\ UNCHANGED <<hits, out, corpus, chroma>>
    /\ UNCHANGED otherVars

\* The orders in which the database may hand the rows of the table to the
\* sort: ORDER BY has no second key, and neither the place of a row in the
\* heap (an upsert writes a new row version) nor the sort's treatment of
\* equal keys is fixed by the statement.
ScanOrders(table) ==
    {scan \in [1..Len(table) -> Range(table)] : Range(scan) = Range(table)}

\* store.search(query_embedding, top_k)
Search ==
    /\ \E top_k \in 1..MaxBatch, scan \in ScanOrders(neon) :
         last' = [op |-> "search", top_k |-> top_k,
                  result |-> search(scan, QueryEmbedding, top_k, None, None)]
    /\ UNCHANGED <<hits, out, corpus, chroma, neon>>
    /\ UNCHANGED otherVars

\* store.count()
Count ==
    /\ last' = [op |-> "count", result |-> count(neon)]
    /\ UNCHANGED <<hits, out, corpus, chroma, neon>>
    /\ UNCHANGED otherVars

NextStore == AddChunks \/ DeleteAll \/ Search \/ Count

SpecStore == InitStore /\ [][NextStore]_vars

(***************************************************************************)
(* IndexingStatsTracker (backend/indexing_stats.py): tracker is self.stats *)
(* with the fields the batch history is made of. A missing key of          *)
(* batch_stats is None.                                                    *)
(***************************************************************************)
\* if len(self.stats["batches"]) > 100: ... [-100:]
BatchHistoryLimit == 100

_create_empty_stats ==
    [total_batches |-> 0, total_documents_indexed |-> 0, total_chunks_created |-> 0,
     batches |-> <<>>]

\* dict.get(key, 0) on an optional entry
GetOrZero(entry) == IF entry = None THEN 0 ELSE entry[1]

\* The record update_batch appends for a call that made total_batches n.
BatchRecord(n, batch_stats) ==
    [batch_number |-> n,
     documents_processed |-> GetOrZero(batch_stats.documents_processed),
     chunks_created |-> GetOrZero(batch_stats.chunks_created)]

\* A plausible slip: the slice keeps the first records, [:100].
KeepFirst(records, n) == SubSeq(records, 1, IF Len(records) < n THEN Len(records) ELSE n)

\* records[-n:]
KeepLast(records, n) ==
    SubSeq(records, IF Len(records) > n THEN Len(records) - n + 1 ELSE 1, Len(records))

update_batch(stats, batch_stats) ==
    CHOOSE r \in
       {[total_batches |-> n,
         total_documents_indexed |->
             stats.total_documents_indexed + GetOrZero(batch_stats.documents_processed),
         total_chunks_created |->
             stats.total_chunks_created + GetOrZero(batch_stats.chunks_created),
         batches |-> IF Len(stats.batches) + 1 > BatchHistoryLimit
                     THEN KeepLast(Append(stats.batches, BatchRecord(n, batch_stats)),
                                   BatchHistoryLimit)
                     ELSE Append(stats.batches, BatchRecord(n, batch_stats))]
        : n \in {stats.total_batches + 1}} : TRUE

\* reset: self.stats = self._create_empty_stats(); the save that follows
\* writes the file and leaves self.stats alone.
reset(stats) == _create_empty_stats

\* Calls to one tracker: enough of them to fill the history and overflow it.
MaxUpdates == 101

\* The first calls come with any of the inputs, the later ones with the full
\* one.
VariedUpdates == 2

FullBatchStats == [documents_processed |-> Some(3), chunks_created |-> Some(7)]

BatchStatsInputs == {FullBatchStats, [documents_processed |-> None, chunks_created |-> None]}

InitTracker ==
    /\ tracker = _create_empty_stats
    /\ last = NoCall
    /\ hits = <<>>
    /\ out = NoOutput
    /\ corpus = <<>>
    /\ chroma = <<>>
    /\ neon = <<>>
    /\ first = Idle
    /\ sessions = Idle
    /\ uniprot = Idle
    /\ migration = Idle
    /\ indexer = Idle

\* tracker.update_batch(batch_stats)
UpdateBatch ==
    /\ tracker.total_batches < MaxUpdates
    /\ \E batch_stats \in IF tracker.total_batches < VariedUpdates
                          THEN BatchStatsInputs ELSE {FullBatchStats} :
          /\ tracker' = update_batch(tracker, batch_stats)
          /\ last' = [op |-> "update_batch", batch_stats |-> batch_stats]
    /\ UNCHANGED <<hits, out, corpus, chroma, neon, first, sessions, uniprot, migration, indexer>>

\* tracker.reset()
Reset ==
    /\ tracker' = reset(tracker)
    /\ last' = [op |-> "reset"]
    /\ UNCHANGED <<hits, out, corpus, chroma, neon, first, sessions, uniprot, migration, indexer>>

NextTracker == UpdateBatch \/ Reset

SpecTracker == InitTracker /\ [][NextTracker]_vars

(***************************************************************************)
(* UniProtClient (backend/uniprot_client.py). uniprot holds the client's   *)
(* fields last_request_time and cache, the clock, the HTTP requests sent   *)
(* so far with their start times, and for every calling thread its place   *)
(* in get_protein and its local variables. Time is in ticks.               *)
(***************************************************************************)
Threads == {"t1", "t2"}

GeneSymbols == {"APOE", "SIRT6"}

\* UniProtClient(rate_limit_delay=2, cache_ttl_seconds=3), in ticks
rate_limit_delay == 2

cache_ttl == 3

\* get_protein calls made on the client, and the last tick of the clock.
MaxCalls == 3

MaxClock == 5

\* time.time() when the client is constructed: far more than
\* rate_limit_delay after last_request_time = 0.0.
StartTime == rate_limit_delay

\* _is_cache_valid
_is_cache_valid(u, gene_symbol) ==
    /\ u.cache[gene_symbol] # None
    /\ u.clock - u.cache[gene_symbol][1] < cache_ttl

InitUniProt ==
    /\ uniprot = [clock |-> StartTime, last_request_time |-> 0,
                  cache |-> [g \in GeneSymbols |-> None],
                  requests |-> <<>>, calls |-> 0,
                  pc |-> [t \in Threads |-> "idle"],
                  gene_symbol |-> [t \in Threads |-> "APOE"],
                  sleep_until |-> [t \in Threads |-> 0]]
    /\ last = NoCall
    /\ hits = <<>>
    /\ out = NoOutput
    /\ corpus = <<>>
    /\ chroma = <<>>
    /\ neon = <<>>
    /\ first = Idle
    /\ sessions = Idle
    /\ migration = Idle
    /\ indexer = Idle
    /\ tracker = Idle

\* get_protein, up to the call of _enforce_rate_limit: a valid cache entry is
\* returned at once.
GetProtein(t) ==
    /\ uniprot.pc[t] = "idle"
    /\ uniprot.calls < MaxCalls
    /\ \E g \in GeneSymbols :
          IF _is_cache_valid(uniprot, g)
          THEN /\ uniprot' = [uniprot EXCEPT !.calls = @ + 1]
               /\ last' = [op |-> "get_protein", thread |-> t, gene_symbol |-> g,
                           cached |-> TRUE,
                           sent |-> Len(uniprot'.requests) - Len(uniprot.requests)]
          ELSE /\ uniprot' = [uniprot EXCEPT !.calls = @ + 1, !.pc[t] = "limit",
                                             !.gene_symbol[t] = g]
               /\ last' = [op |-> "get_protein", thread |-> t, gene_symbol |-> g,
                           cached |-> FALSE, sent |-> 0]
    /\ UNCHANGED <<hits, out, corpus, chroma, neon, first, sessions, migration, indexer, tracker>>

\* _enforce_rate_limit: the clock and last_request_time are read, and the
\* thread sleeps for what is missing of rate_limit_delay.
EnforceRead(t) ==
    /\ uniprot.pc[t] = "limit"
    /\ \E time_since_last \in {uniprot.clock - uniprot.last_request_time} :
          uniprot' = IF time_since_last < rate_limit_delay
                     THEN [uniprot EXCEPT !.pc[t] = "sleep",
                              !.sleep_until[t] = uniprot.clock + (rate_limit_delay - time_since_last)]
                     ELSE [uniprot EXCEPT !.pc[t] = "stamp"]
    /\ UNCHANGED <<hits, out, corpus, chroma, neon, last, first, sessions, migration, indexer, tracker>>

\* time.sleep(sleep_time) returns once the time has passed.
EnforceWake(t) ==
    /\ uniprot.pc[t] = "sleep"
    /\ uniprot.clock >= uniprot.sleep_until[t]
    /\ uniprot' = [uniprot EXCEPT !.pc[t] = "stamp"]
    /\ UNCHANGED <<hits, out, corpus, chroma, neon, last, first, sessions, migration, indexer, tracker>>

\* self.last_request_time = time.time(), and client.get(search_url,
\* params=params) right after it: the request starts at the time stamped.
SendRequest(t) ==
    /\ uniprot.pc[t] = "stamp"
    /\ uniprot' = [uniprot EXCEPT !.pc[t] = "wait", !.last_request_time = uniprot.clock,
                      !.requests = Append(@, [thread |-> t, time |-> uniprot.clock,
                                              gene_symbol |-> uniprot.gene_symbol[t]])]
    /\ UNCHANGED <<hits, out, corpus, chroma, neon, last, first, sessions, migration, indexer, tracker>>

\* The response: an entry is parsed and cached, or there is no result or an
\* error and None is returned.
ReceiveResponse(t) ==
    /\ uniprot.pc[t] = "wait"
    /\ \E found \in BOOLEAN :
          uniprot' = IF found
                     THEN [uniprot EXCEPT !.pc[t] = "idle",
                              !.cache[uniprot.gene_symbol[t]] = Some(uniprot.clock)]
                     ELSE [uniprot EXCEPT !.pc[t] = "idle"]
    /\ UNCHANGED <<hits, out, corpus, chroma, neon, last, first, sessions, migration, indexer, tracker>>

\* Time passes.
Tick ==
    /\ uniprot.clock < MaxClock
    /\ uniprot' = [uniprot EXCEPT !.clock = @ + 1]
    /\ UNCHANGED <<hits, out, corpus, chroma, neon, last, first, sessions, migration, indexer, tracker>>

NextUniProt ==
    \/ \E t \in Threads :
          \/ GetProtein(t)
          \/ EnforceRead(t)
          \/ EnforceWake(t)
          \/ SendRequest(t)
          \/ ReceiveResponse(t)
    \/ Tick

SpecUniProt == InitUniProt /\ [][NextUniProt]_vars

(***************************************************************************)
(* migrate_chroma_to_neon (backend/migrate_to_neon.py): one run of the      *)
(* script from a ChromaDB collection into a NeonDB table that is empty or  *)
(* holds rows already. migration holds the script's place and locals.      *)
(***************************************************************************)
\* Chunks in the ChromaDB collection, and rows in NeonDB before the run.
MaxCollection == 2

MaxExisting == 2

\* Ids of the collection's chunks, and an id only other data has.
MigrationIds == {"c1", "c2", "x1"}

\* The collection's vectors all have one dimension, which need not be the
\* dimension of the table's column.
MigrationChunks == {StoreChunk(id, content) : id \in MigrationIds, content \in StoreContents}

ExistingRows == {StoreChunk(id, content) : id \in MigrationIds, content \in {"old", "new"}}

\* json.loads of a metadata string, [] when it does not parse; a value that
\* is not a string is kept.
JsonLoadsOrEmpty(v) == IF v.type \in {"jsonstr", "list"} THEN v.val ELSE <<>>

\* The VectorChunk built from one record of collection.get.
MigratedChunk(record) ==
    VectorChunk(record.id, record.document, record.embedding,
                [pmcid |-> Get(record.metadata, "pmcid", ""),
                 pmid |-> Get(record.metadata, "pmid", ""),
                 title |-> Get(record.metadata, "title", ""),
                 year |-> Get(record.metadata, "year", 0),
                 proteins_mentioned |-> JsonLoadsOrEmpty(Get(record.metadata, "proteins_mentioned", JsonDumps(<<>>))),
                 aging_theories |-> JsonLoadsOrEmpty(Get(record.metadata, "aging_theories", JsonDumps(<<>>))),
                 chunk_index |-> Get(record.metadata, "chunk_index", 0)])

\* collection.get(limit=limit, offset=offset)
ChromaGet(collection, limit, offset) ==
    SubSeq(collection, offset + 1,
           IF offset + limit < Len(collection) THEN offset + limit ELSE Len(collection))

InitMigrate ==
    /\ \E n \in 0..MaxCollection :
         \E chunks \in [1..n -> MigrationChunks] :
            /\ \A i \in 1..n : chunks[i].id = ChunkIds[i]
            /\ \A i, j \in 1..n : Len(chunks[i].embedding) = Len(chunks[j].embedding)
            /\ corpus = chunks
    /\ chroma = ChromaUpsert(<<>>, corpus)
    /\ \E m \in 0..MaxExisting :
         \E rows \in [1..m -> ExistingRows] :
            neon = add_chunks(<<>>, rows, MigrationBatchSize).table
    /\ \E batch_size \in BatchSizes :
         migration = [pc |-> "start", batch_size |-> batch_size, total_count |-> 0,
                      offset |-> 0, migrated |-> 0, status |-> "running"]
    /\ last = NoCall
    /\ hits = <<>>
    /\ out = NoOutput
    /\ first = Idle
    /\ sessions = Idle
    /\ uniprot = Idle
    /\ indexer = Idle
    /\ tracker = Idle

\* The counts and the check for data already in NeonDB.
MigrateStart ==
    /\ migration.pc = "start"
    /\ \E total_count \in {Len(chroma)}, existing_count \in {count(neon)} :
          migration' =
             IF total_count = 0
             THEN [migration EXCEPT !.pc = "done", !.status = "exit 1"]
             ELSE IF existing_count > 0 /\ existing_count >= total_count
             THEN [migration EXCEPT !.pc = "done", !.status = "exit 0",
                                    !.total_count = total_count]
             ELSE [migration EXCEPT !.pc = "loop", !.total_count = total_count]
    /\ UNCHANGED <<hits, out, corpus, chroma, neon, last, first, sessions, uniprot, indexer, tracker>>

\* One round of the while loop: a batch is read, converted and written, and
\* the loop condition offset < total_count is tested again.
MigrateBatch ==
    /\ migration.pc = "loop"
    /\ \E results \in {ChromaGet(chroma, migration.batch_size, migration.offset)} :
          IF results = <<>>
          THEN /\ migration' = [migration EXCEPT !.pc = "after"]
               /\ UNCHANGED neon
          ELSE \E r \in {add_chunks(neon, [i \in 1..Len(results) |-> MigratedChunk(results[i])],
                                    migration.batch_size)} :
                  /\ neon' = r.table
                  /\ migration' =
                        IF r.raised
                        THEN [migration EXCEPT !.pc = "done", !.status = "raised"]
                        ELSE [migration EXCEPT !.migrated = @ + Len(results),
                                               !.offset = @ + migration.batch_size,
                                               !.pc = IF migration.offset + migration.batch_size
                                                          < migration.total_count
                                                       THEN "loop" ELSE "after"]
    /\ UNCHANGED <<hits, out, corpus, chroma, last, first, sessions, uniprot, indexer, tracker>>

\* After the loop: create_index, the final count and the report.
MigrateFinish ==
    /\ migration.pc = "after"
    /\ migration' = [migration EXCEPT !.pc = "done", !.status = "returned"]
    /\ last' = [op |-> "migrate", final_count |-> count(neon),
                total_count |-> migration.total_count]
    /\ UNCHANGED <<hits, out, corpus, chroma, neon, first, sessions, uniprot, indexer, tracker>>

NextMigrate == MigrateStart \/ MigrateBatch \/ MigrateFinish

SpecMigrate == InitMigrate /\ [][NextMigrate]_vars

(***************************************************************************)
(* index_run_all and index_chroma_batch (backend/app.py). indexer holds    *)
(* the papers directory, the locals of index_run_all, the files each batch *)
(* built documents from, and the files whose chunks were stored.           *)
(***************************************************************************)
\* JSON files in papers/.
MaxPapers == 3

PaperNames == <<"a.json", "b.json", "c.json", "d.json">>

\* A file holds a paper with text, a paper without plain_text, or no JSON.
PaperKinds == {"paper", "empty_text", "bad_json"}

PaperScores == {0, 2}

\* index_chroma_batch's default top_n
top_n == 1000

RunAllBatchSizes == {1, 2}

Max(a, b) == IF a > b THEN a ELSE b

Min(a, b) == IF a < b THEN a ELSE b

\* list[offset: offset + limit]
Slice(l, offset, limit) == SubSeq(l, offset + 1, Min(offset + limit, Len(l)))

\* scored.sort(key=score, reverse=True): stable, highest score first.
SortedByScoreDesc(files) ==
    SelectSeq(files, LAMBDA f : f.score = 2) \o SelectSeq(files, LAMBDA f : f.score = 0)

\* index_chroma_batch(limit, offset) with use_scoring=True: files is the
\* batch slice, docs the files a Document was built from; embed is the
\* outcome of the embedding request.
index_chroma_batch(papers, limit, offset, embed) ==
    CHOOSE r \in
       {IF files = <<>> THEN [raised |-> FALSE, files |-> files, stored |-> <<>>]
        ELSE IF docs = <<>> THEN [raised |-> FALSE, files |-> files, stored |-> <<>>]
        ELSE IF embed = "error" THEN [raised |-> TRUE, files |-> files, stored |-> <<>>]
        ELSE [raised |-> FALSE, files |-> files, stored |-> docs]
        : files \in {Slice(Prefix(SortedByScoreDesc(SelectSeq(papers, LAMBDA f : f.kind # "bad_json")),
                                  Max(1, top_n)),
                           offset, limit)},
          docs \in {SelectSeq(Slice(Prefix(SortedByScoreDesc(SelectSeq(papers, LAMBDA f : f.kind # "bad_json")),
                                           Max(1, top_n)),
                                    offset, limit),
                              LAMBDA f : f.kind = "paper")}} : TRUE

NamesOf(files) == {files[i].name : i \in 1..Len(files)}

InitIndex ==
    /\ \E n \in 0..MaxPapers, batch_size \in RunAllBatchSizes :
         \E kind \in [1..n -> PaperKinds], score \in [1..n -> PaperScores] :
            indexer = [pc |-> "start", batch_size |-> batch_size,
                       papers |-> [i \in 1..n |-> [name |-> PaperNames[i], kind |-> kind[i],
                                                   score |-> IF kind[i] = "bad_json" THEN 0 ELSE score[i]]],
                       total |-> 0, offset |-> 0, processed |-> 0,
                       batches |-> <<>>, stored |-> {}, status |-> "running"]
    /\ last = NoCall
    /\ hits = <<>>
    /\ out = NoOutput
    /\ corpus = <<>>
    /\ chroma = <<>>
    /\ neon = <<>>
    /\ first = Idle
    /\ sessions = Idle
    /\ uniprot = Idle
    /\ migration = Idle
    /\ tracker = Idle

\* index_run_all up to the loop: the directory is listed.
RunAllStart ==
    /\ indexer.pc = "start"
    /\ \E total \in {Len(indexer.papers)} :
          /\ indexer' = IF total = 0
                        THEN [indexer EXCEPT !.pc = "done", !.status = "ok"]
                        ELSE [indexer EXCEPT !.pc = "loop", !.total = total]
          /\ last' = IF total = 0 THEN [op |-> "index_run_all", status |-> "ok", indexed |-> 0,
                                        total |-> 0]
                     ELSE last
    /\ UNCHANGED <<hits, out, corpus, chroma, neon, first, sessions, uniprot, migration, tracker>>

\* One round of the loop: index_chroma_batch(limit, offset) is called, and
\* processed grows by limit unless the call raises.
RunAllBatch ==
    /\ indexer.pc = "loop"
    /\ \E limit \in {Min(indexer.batch_size, indexer.total - indexer.offset)},
          embed \in {"ok", "error"} :
          \E r \in {index_chroma_batch(indexer.papers, limit, indexer.offset, embed)} :
             /\ indexer' =
                   IF r.raised
                   THEN [indexer EXCEPT !.pc = "done", !.status = "raised",
                                        !.batches = Append(@, NamesOf(r.files))]
                   ELSE [indexer EXCEPT !.processed = @ + limit,
                                        !.offset = @ + indexer.batch_size,
                                        !.batches = Append(@, NamesOf(r.files)),
                                        !.stored = @ \cup NamesOf(r.stored),
                                        !.pc = IF indexer.offset + indexer.batch_size < indexer.total
                                               THEN "loop" ELSE "after"]
             /\ last' = [op |-> "index_chroma_batch", limit |-> limit, offset |-> indexer.offset,
                         raised |-> r.raised]
    /\ UNCHANGED <<hits, out, corpus, chroma, neon, first, sessions, uniprot, migration, tracker>>

\* After the loop: article_generate, then the result is returned.
RunAllFinish ==
    /\ indexer.pc = "after"
    /\ \E article \in {"ok", "error"} :
          /\ indexer' = [indexer EXCEPT !.pc = "done",
                                        !.status = IF article = "ok" THEN "ok" ELSE "raised"]
          /\ last' = IF article = "ok"
                     THEN [op |-> "index_run_all", status |-> "ok",
                           indexed |-> indexer.processed, total |-> indexer.total]
                     ELSE [op |-> "index_run_all", status |-> "raised", indexed |-> 0,
                           total |-> indexer.total]
    /\ UNCHANGED <<hits, out, corpus, chroma, neon, first, sessions, uniprot, migration, tracker>>

NextIndex == RunAllStart \/ RunAllBatch \/ RunAllFinish

SpecIndex == InitIndex /\ [][NextIndex]_vars

(***************************************************************************)
(* One engine object, of either kind, reused for a sequence of queries     *)
(* over stores that nothing else writes. first keeps the first call made,  *)
(* and whether a call with other arguments has been made since. The state  *)
(* of the table includes the order in which it hands out rows of equal     *)
(* distance, which is any one order and stays what it is.                  *)
(***************************************************************************)
MaxRepeatChunks == 1

\* What the gateways answer to a call: all of them work, or the LLM fails.
RepeatOutcomes == {<<"ok", "ok", "ok">>, <<"ok", "ok", "error">>}

RepeatProteinFilters == {None, Some("apoe"), Some("TP53")}

SameCall(a, b) ==
    /\ a.engine = b.engine
    /\ a.top_k = b.top_k
    /\ a.protein_filter = b.protein_filter
    /\ a.theory_filters = b.theory_filters
    /\ a.synthesize = b.synthesize
    /\ <<a.embed, a.store, a.llm>> = <<b.embed, b.store, b.llm>>

\* What first becomes when the call has been made.
Remember(call) ==
    IF first.op = "none" THEN [op |-> "query", call |-> call, others |-> FALSE]
    ELSE [first EXCEPT !.others = @ \/ ~SameCall(first.call, call)]

InitRepeat ==
    /\ \E n \in 0..MaxRepeatChunks :
         \E f \in [1..n -> CorpusProteins] :
            corpus = [i \in 1..n |-> CorpusChunk(i, QueryEmbedding, f[i], <<"telomere">>)]
    /\ chroma = ChromaUpsert(<<>>, corpus)
    /\ neon \in ScanOrders(add_chunks(<<>>, corpus, MigrationBatchSize).table)
    /\ first = Idle
    /\ last = NoCall
    /\ hits = <<>>
    /\ out = NoOutput
    /\ sessions = Idle
    /\ uniprot = Idle
    /\ migration = Idle
    /\ indexer = Idle
    /\ tracker = Idle

\* engine.query(...) on the ProteinQueryEngine
RepeatProteinQuery ==
    /\ IF first.op = "none" THEN TRUE ELSE first.call.engine = "chroma"
    /\ \E top_k \in TopKs, p \in RepeatProteinFilters, synthesize \in BOOLEAN, o \in RepeatOutcomes :
        \E r \in {ProteinQueryEngine_query(chroma, "Q", top_k, p, None, synthesize, o[1], o[2], o[3])} :
          \E call \in {QueryCall("chroma", top_k, p, None, synthesize, o, r)} :
            /\ last' = call
            /\ first' = Remember(call)
    /\ UNCHANGED <<hits, out, corpus, chroma, neon, sessions, uniprot, migration, indexer, tracker>>

\* engine.query(...) on the NeonQueryEngine
RepeatNeonQuery ==
    /\ IF first.op = "none" THEN TRUE ELSE first.call.engine = "neon"
    /\ \E top_k \in TopKs, p \in RepeatProteinFilters, synthesize \in BOOLEAN, o \in RepeatOutcomes :
        \E r \in {NeonQueryEngine_query(neon, "Q", top_k, p, None, synthesize, o[1], o[2], o[3])} :
          \E call \in {QueryCall("neon", top_k, p, None, synthesize, o, r)} :
            /\ last' = call
            /\ first' = Remember(call)
    /\ UNCHANGED <<hits, out, corpus, chroma, neon, sessions, uniprot, migration, indexer, tracker>>

NextRepeat == RepeatProteinQuery \/ RepeatNeonQuery

SpecRepeat == InitRepeat /\ [][NextRepeat]_vars

(***************************************************************************)
(* Database sessions on one NeonVectorStore: add_chunks runs its batches   *)
(* in one transaction on its own connection, and each search is a single   *)
(* SELECT on a connection of its own. neon is the committed table;         *)
(* sessions holds the writer's transaction and what each reader's          *)
(* statement was given to read. PostgreSQL runs the statements READ        *)
(* COMMITTED: a statement reads the rows committed when it starts, and a   *)
(* row is written as a new version, never changed in place.                *)
(***************************************************************************)
Readers == {"r1", "r2"}

\* Chunks of one add_chunks call of the writer.
MaxTxChunks == 2

\* The writer writes chunk c1, again and again; chunk c2 is in the table
\* from the start and is never written.
SessionChunks == {StoreChunk("c1", content) : content \in StoreContents}

\* A plausible slip: the hits are ranked by one statement and their text and
\* metadata are read by a second one, which sees what was committed since.
StatementViewTwoReads(snapshot, committed) ==
    [i \in 1..Len(snapshot) |->
        IF \E j \in 1..Len(committed) : committed[j].id = snapshot[i].id
        THEN [committed[CHOOSE j \in 1..Len(committed) : committed[j].id = snapshot[i].id]
                 EXCEPT !.embedding = snapshot[i].embedding]
        ELSE snapshot[i]]

\* What the fetch of a SELECT reads, given the rows committed when the
\* statement started and the rows committed now.
StatementView(snapshot, committed) == snapshot

NoReader == [pc |-> "idle", snapshot |-> <<>>]

NoWriter == [pc |-> "idle", tx |-> <<>>, chunks |-> <<>>, batch_size |-> 0, i |-> 0]

InitSessions ==
    /\ sessions = [writer |-> NoWriter, readers |-> [r \in Readers |-> NoReader]]
    /\ neon = add_chunks(<<>>, <<StoreChunk("c2", "old")>>, MigrationBatchSize).table
    /\ last = NoCall
    /\ hits = <<>>
    /\ out = NoOutput
    /\ corpus = <<>>
    /\ chroma = <<>>
    /\ first = Idle
    /\ uniprot = Idle
    /\ migration = Idle
    /\ indexer = Idle
    /\ tracker = Idle

\* add_chunks: the connection is opened and the rows are built.
WriterBegin ==
    /\ sessions.writer.pc = "idle"
    /\ \E n \in 1..MaxTxChunks, batch_size \in BatchSizes :
         \E chunks \in [1..n -> SessionChunks] :
            sessions' = [sessions EXCEPT !.writer = [pc |-> "tx", tx |-> neon, chunks |-> chunks,
                                                     batch_size |-> batch_size, i |-> 0]]
    /\ UNCHANGED <<hits, out, corpus, chroma, neon, last, first, uniprot, migration, indexer, tracker>>

\* add_chunks: one execute_values statement. A statement that fails raises,
\* the connection is closed and the transaction is rolled back.
WriterBatch ==
    /\ sessions.writer.pc = "tx"
    /\ sessions.writer.i < Len(sessions.writer.chunks)
    /\ \E w \in {sessions.writer} :
        \E batch \in {SubSeq(w.chunks, w.i + 1,
                             IF w.i + w.batch_size < Len(w.chunks) THEN w.i + w.batch_size
                             ELSE Len(w.chunks))} :
           sessions' = IF StatementFails(batch)
                       THEN [sessions EXCEPT !.writer = NoWriter]
                       ELSE [sessions EXCEPT !.writer.i = w.i + w.batch_size,
                                !.writer.tx = UpsertRows(w.tx, [k \in 1..Len(batch) |-> RowOf(batch[k])],
                                                         Len(batch))]
    /\ UNCHANGED <<hits, out, corpus, chroma, neon, last, first, uniprot, migration, indexer, tracker>>

\* add_chunks: conn.commit() after the last batch.
WriterCommit ==
    /\ sessions.writer.pc = "tx"
    /\ sessions.writer.i >= Len(sessions.writer.chunks)
    /\ neon' = sessions.writer.tx
    /\ sessions' = [sessions EXCEPT !.writer = NoWriter]
    /\ UNCHANGED <<hits, out, corpus, chroma, last, first, uniprot, migration, indexer, tracker>>

\* search(query_embedding, top_k=MaxBatch): the SELECT starts.
ReaderBegin(r) ==
    /\ sessions.readers[r].pc = "idle"
    /\ sessions' = [sessions EXCEPT !.readers[r] = [pc |-> "select", snapshot |-> neon]]
    /\ UNCHANGED <<hits, out, corpus, chroma, neon, last, first, uniprot, migration, indexer, tracker>>

\* search: the rows are fetched and the hits are returned.
ReaderEnd(r) ==
    /\ sessions.readers[r].pc = "select"
    /\ \E s \in {sessions.readers[r]} :
          last' = [op |-> "search", top_k |-> MaxBatch, snapshot |-> s.snapshot,
                   overlapped |-> sessions.writer.pc = "tx" \/ s.snapshot # neon,
                   result |-> search(StatementView(s.snapshot, neon), QueryEmbedding, MaxBatch,
                                     None, None)]
    /\ sessions' = [sessions EXCEPT !.readers[r] = NoReader]
    /\ UNCHANGED <<hits, out, corpus, chroma, neon, first, uniprot, migration, indexer, tracker>>

NextSessions ==
    \/ WriterBegin
    \/ WriterBatch
    \/ WriterCommit
    \/ \E r \in Readers : ReaderBegin(r) \/ ReaderEnd(r)

SpecSessions == InitSessions /\ [][NextSessions]_vars

(***************************************************************************)
(* Claims about the pure helpers.                                          *)
(***************************************************************************)
\* The hit has an entry of proteins_mentioned equal to p once both sides
\* are upper-cased.
MentionsProtein(hit, p) ==
    \E i \in 1..Len(proteins_mentioned(hit)) :
        Upper(proteins_mentioned(hit)[i]) = Upper(p)

\* C1: for every hit list H and non-empty protein_filter p, a hit of H is in
\* filter(H, p, None) exactly when one of its proteins_mentioned entries
\* equals p after upper-casing both sides: every returned hit has such an
\* entry and every hit left out has none.
C1_ProteinFilterPredicate ==
    (out.op = "filter" /\ TruthyStr(out.protein_filter) /\ out.theory_filters = None)
    => /\ \A j \in 1..Len(out.result) :
            /\ out.result[j] \in Range(hits)
            /\ MentionsProtein(out.result[j], out.protein_filter[1])
       /\ \A i \in 1..Len(hits) :
            hits[i] \notin Range(out.result)
            => ~MentionsProtein(hits[i], out.protein_filter[1])

\* A call with the lower-case filter "apoe" keeps a hit listing "Apoe" and
\* leaves another hit out.
C1_Witness ==
    /\ out.op = "filter"
    /\ out.protein_filter = Some("apoe")
    /\ out.theory_filters = None
    /\ \E j \in 1..Len(out.result) : "Apoe" \in Range(proteins_mentioned(out.result[j]))
    /\ Len(out.result) < Len(hits)

\* The hits are in non-increasing score order, as a store returns them.
SortedByScore(hs) ==
    \A i, j \in 1..Len(hs) : i < j => RLeq(hs[j].score, hs[i].score)

\* The citation's relevance_score is the maximum score among the hits that
\* share its pmcid.
HasMaxScore(c, hs) ==
    /\ \E i \in 1..Len(hs) : pmcid(hs[i]) = c.pmcid /\ hs[i].score = c.relevance_score
    /\ \A i \in 1..Len(hs) : pmcid(hs[i]) = c.pmcid => RLeq(hs[i].score, c.relevance_score)

\* C6 as stated: for every hit list, in whatever order, each citation of
\* extract(hits) has the maximum score among the hits sharing its pmcid.
C6_RelevanceIsMaxAnyOrder ==
    out.op = "citations"
    => \A k \in 1..Len(out.result) : HasMaxScore(out.result[k], hits)

\* C6 amended: for every hit list in non-increasing score order (the order
\* both stores return and the filter preserves), each citation of
\* extract(hits) has the maximum score among the hits sharing its pmcid.
C6_RelevanceIsMaxWhenSorted ==
    (out.op = "citations" /\ SortedByScore(hits))
    => \A k \in 1..Len(out.result) : HasMaxScore(out.result[k], hits)

\* Citations were extracted from a sorted list in which one paper has two
\* hits of different scores.
C6_Witness ==
    /\ out.op = "citations"
    /\ SortedByScore(hits)
    /\ \E i, j \in 1..Len(hits) :
          /\ i < j
          /\ pmcid(hits[i]) # ""
          /\ pmcid(hits[i]) = pmcid(hits[j])
          /\ hits[i].score # hits[j].score
    /\ Len(out.result) >= 1

(***************************************************************************)
(* Claims about the two query engines.                                     *)
(***************************************************************************)
\* The chunks of the QueryResult the last query call returned.
ReturnedChunks == IF last.op = "query" /\ ~last.raised THEN last.result[1].chunks ELSE <<>>

\* The lists a returned chunk exposes, as the engine that built it reads them.
ChunkProteins(chunk) ==
    IF last.engine = "neon" THEN Neon_proteins_mentioned(chunk) ELSE proteins_mentioned(chunk)

ChunkTheories(chunk) ==
    IF last.engine = "neon" THEN Neon_aging_theories(chunk) ELSE aging_theories(chunk)

HasProtein(chunk, p) ==
    \E i \in 1..Len(ChunkProteins(chunk)) : Upper(ChunkProteins(chunk)[i]) = Upper(p)

SharesTheory(chunk, T) ==
    \E i \in 1..Len(ChunkTheories(chunk)) : ChunkTheories(chunk)[i] \in Range(T)

\* The chunk satisfies every filter that is present.
PassesFilters(chunk, p, T) ==
    /\ TruthyStr(p) => HasProtein(chunk, p[1])
    /\ TruthyList(T) => SharesTheory(chunk, T[1])

\* C2: for every NeonQueryEngine.query call with a non-empty protein_filter p
\* and/or theory_filters T, every chunk of the returned QueryResult.chunks
\* has p (case-insensitively) in its proteins_mentioned and a member of T in
\* its aging_theories.
C2_NeonFiltersApplied ==
    (last.op = "query" /\ last.engine = "neon" /\ ~last.raised
       /\ (TruthyStr(last.protein_filter) \/ TruthyList(last.theory_filters)))
    => \A j \in 1..Len(ReturnedChunks) :
          PassesFilters(ReturnedChunks[j], last.protein_filter, last.theory_filters)

\* A filter is present in the call.
FilterPresent == TruthyStr(last.protein_filter) \/ TruthyList(last.theory_filters)

\* C3 as stated: in every query call of either engine that reaches the
\* vector store, the number of candidates requested is top_k x 5 when
\* protein_filter or theory_filters is present and exactly top_k otherwise.
C3_OverFetchEitherEngine ==
    (last.op = "query" /\ last.embed = "ok")
    => last.requested = IF FilterPresent THEN last.top_k * 5 ELSE last.top_k

\* C3 amended: ProteinQueryEngine requests top_k x 5 candidates when a filter
\* is present and exactly top_k otherwise; NeonQueryEngine requests exactly
\* top_k candidates whether or not a filter is present.
C3_OverFetchPerEngine ==
    (last.op = "query" /\ last.embed = "ok")
    => /\ last.engine = "chroma"
          => last.requested = IF FilterPresent THEN last.top_k * 5 ELSE last.top_k
       /\ last.engine = "neon" => last.requested = last.top_k

\* A filtered ProteinQueryEngine call asked the store for five times top_k.
C3_Witness ==
    /\ last.op = "query"
    /\ last.engine = "chroma"
    /\ last.embed = "ok"
    /\ TruthyStr(last.protein_filter)
    /\ last.top_k = 2
    /\ last.requested = 10

\* The stored chunk satisfies every filter that is present.
CorpusPasses(chunk, p, T) ==
    /\ TruthyStr(p)
       => \E i \in 1..Len(chunk.metadata.proteins_mentioned) :
             Upper(chunk.metadata.proteins_mentioned[i]) = Upper(p[1])
    /\ TruthyList(T)
       => \E i \in 1..Len(chunk.metadata.aging_theories) :
             chunk.metadata.aging_theories[i] \in Range(T[1])

\* The n nearest stored chunks of the query embedding.
Nearest(n) == Prefix(RankByDistance(corpus, QueryEmbedding, Len(corpus)), n)

\* More than one in five of the n nearest chunks pass the filters.
DenserThanOneInFive(n, p, T) ==
    5 * Cardinality({i \in 1..Len(Nearest(n)) : CorpusPasses(Nearest(n)[i], p, T)})
      > Len(Nearest(n))

\* C4: if the store has at least top_k chunks matching a filter and matching
\* chunks are denser than 1 in 5 among the nearest neighbours of the query,
\* the query with that filter returns exactly top_k hits, all matching.
C4_OverFetchSufficiency ==
    (last.op = "query" /\ last.embed = "ok" /\ FilterPresent
       /\ Cardinality({i \in 1..Len(corpus) :
             CorpusPasses(corpus[i], last.protein_filter, last.theory_filters)}) >= last.top_k
       /\ DenserThanOneInFive(last.top_k * 5, last.protein_filter, last.theory_filters))
    => /\ ~last.raised
       /\ Len(ReturnedChunks) = last.top_k
       /\ \A j \in 1..Len(ReturnedChunks) :
             PassesFilters(ReturnedChunks[j], last.protein_filter, last.theory_filters)

\* The ids of the stored chunks that share a theory with T.
IdsSharingTheory(T) ==
    {corpus[i].id : i \in {k \in 1..Len(corpus) :
        \E t \in 1..Len(corpus[k].metadata.aging_theories) :
            corpus[k].metadata.aging_theories[t] \in Range(T)}}

\* C5: for every non-empty theory_filters T of any size, in both engines, a
\* hit survives if and only if its aging_theories shares an element with T:
\* with every stored chunk among the candidates, the returned chunks are
\* exactly the stored chunks sharing a theory with T.
C5_TheoryFilterIsOr ==
    (last.op = "query" /\ ~last.raised /\ last.protein_filter = None
       /\ TruthyList(last.theory_filters) /\ last.top_k >= Len(corpus))
    => {ReturnedChunks[j].chunk_id : j \in 1..Len(ReturnedChunks)}
         = IdsSharingTheory(last.theory_filters[1])

\* The chunk ids of a query outcome, in order.
IdsOf(r) == IF r.raised THEN <<>> ELSE [j \in 1..Len(r.result[1].chunks) |-> r.result[1].chunks[j].chunk_id]

\* The same call made on the other engine.
OtherEngine ==
    IF last.engine = "chroma"
    THEN NeonQueryEngine_query(neon, "Q", last.top_k, last.protein_filter, last.theory_filters, last.synthesize, last.embed, last.store, last.llm)
    ELSE ProteinQueryEngine_query(chroma, "Q", last.top_k, last.protein_filter, last.theory_filters, last.synthesize, last.embed, last.store, last.llm)

\* C7: given identical chunk sets, the same query embedding and the same
\* arguments (top_k <= corpus size, the same filters), ProteinQueryEngine and
\* NeonQueryEngine return results with the same chunk-id ordering.
C7_BackendEquivalence ==
    (last.op = "query" /\ ~last.raised /\ last.top_k <= Len(corpus))
    => IdsOf(last) = IdsOf(OtherEngine)

\* The same call with synthesize=False.
WithoutSynthesis ==
    IF last.engine = "chroma"
    THEN ProteinQueryEngine_query(chroma, "Q", last.top_k, last.protein_filter, last.theory_filters, FALSE, last.embed, last.store, last.llm)
    ELSE NeonQueryEngine_query(neon, "Q", last.top_k, last.protein_filter, last.theory_filters, FALSE, last.embed, last.store, last.llm)

\* C10: if the LLM gateway call fails (error or timeout) in a query whose
\* retrieval produced a non-empty hit list, query does not raise; its
\* QueryResult has the chunks, citations and confidence of the same query
\* with synthesize=false and a non-empty error-message answer.
C10_SynthesisSoftFail ==
    (last.op = "query" /\ last.llm_called /\ last.llm \in {"error", "timeout"})
    => /\ ~last.raised
       /\ \A w \in {WithoutSynthesis} :
             /\ ~w.raised
             /\ last.result[1].chunks = w.result[1].chunks
             /\ last.result[1].citations = w.result[1].citations
             /\ last.result[1].confidence = w.result[1].confidence
       /\ last.result[1].chunks # <<>>
       /\ last.result[1].answer = LlmErrorAnswer
       /\ last.result[1].answer # ""

\* A ProteinQueryEngine call whose LLM call timed out returned its chunks
\* and citations with the error message as the answer.
C10_Witness ==
    /\ last.op = "query"
    /\ last.engine = "chroma"
    /\ last.synthesize
    /\ last.llm = "timeout"
    /\ last.llm_called
    /\ ~last.raised
    /\ Len(last.result[1].chunks) = 2
    /\ last.result[1].citations # <<>>
    /\ last.result[1].answer = LlmErrorAnswer

(***************************************************************************)
(* Claims about NeonVectorStore.                                           *)
(***************************************************************************)
\* The last chunk of the call written under the id.
LastWritten(chunks, id) ==
    chunks[CHOOSE i \in 1..Len(chunks) :
              /\ chunks[i].id = id
              /\ \A j \in (i + 1)..Len(chunks) : chunks[j].id # id]

\* What search reads back for the id: every hit of a search over the whole
\* table that carries the id.
ReadBack(id) ==
    SelectSeq(search(neon, QueryEmbedding, count(neon), None, None), LAMBDA h : h.id = id)

\* The hit shows the chunk's text and every metadata field.
ReadsAs(hit, chunk) ==
    /\ hit.text = chunk.text
    /\ hit.metadata.pmcid = chunk.metadata.pmcid
    /\ hit.metadata.pmid = chunk.metadata.pmid
    /\ hit.metadata.title = chunk.metadata.title
    /\ hit.metadata.year = chunk.metadata.year
    /\ hit.metadata.proteins_mentioned = PyList(chunk.metadata.proteins_mentioned)
    /\ hit.metadata.aging_theories = PyList(chunk.metadata.aging_theories)
    /\ hit.metadata.chunk_index = chunk.metadata.chunk_index

\* C8: after an add_chunks call that writes a chunk id, whatever was stored
\* under that id before, the store has exactly one chunk at that id and
\* reading it back yields the text and every other field of the latest
\* write.
C8_UpsertIdempotence ==
    (last.op = "add_chunks" /\ ~last.raised)
    => \A k \in 1..Len(last.chunks) :
          /\ Cardinality({i \in 1..Len(neon) : neon[i].id = last.chunks[k].id}) = 1
          /\ Len(ReadBack(last.chunks[k].id)) = 1
          /\ ReadsAs(ReadBack(last.chunks[k].id)[1], LastWritten(last.chunks, last.chunks[k].id))
          /\ \A i \in 1..Len(neon) :
                neon[i].id = last.chunks[k].id
                => neon[i].embedding = LastWritten(last.chunks, last.chunks[k].id).embedding

\* The second write of an id: the table held the id with another text and
\* holds as many rows after the call as before it.
C8_Witness ==
    /\ last.op = "add_chunks"
    /\ ~last.raised
    /\ Len(last.chunks) = 1
    /\ last.chunks[1].text = "new text"
    /\ \E i \in 1..Len(last.before) :
          /\ last.before[i].id = last.chunks[1].id
          /\ last.before[i].text = "old text"
    /\ count(neon) = count(last.before)
    /\ count(neon) = 2

\* C9: add_chunks called with any chunk whose embedding length differs from
\* the store's embedding_dim fails (the database's rejection of the vector
\* is the exception the caller sees), and count() after the failed call
\* equals count() before it.
C9_DimensionCheckOnWrite ==
    (last.op = "add_chunks"
       /\ \E k \in 1..Len(last.chunks) : Len(last.chunks[k].embedding) # embedding_dim)
    => /\ last.raised
       /\ count(neon) = count(last.before)
       /\ neon = last.before

\* A call in batches of one whose first chunk is new to a non-empty table and
\* whose second chunk has a vector of the wrong length.
C9_Witness ==
    /\ last.op = "add_chunks"
    /\ last.batch_size = 1
    /\ Len(last.chunks) = 2
    /\ Len(last.chunks[1].embedding) = embedding_dim
    /\ Len(last.chunks[2].embedding) # embedding_dim
    /\ \A i \in 1..Len(last.before) : last.before[i].id # last.chunks[1].id
    /\ last.raised
    /\ count(last.before) = 1
    /\ count(neon) = 1

(***************************************************************************)
(* Retrieval-path failures                                                 *)
(***************************************************************************)

\* C11: when the embedding gateway call or the store search of a query call
\* fails, the call raises, leaves no QueryResult and has not called the LLM.
C11_RetrievalFailurePropagates ==
    (last.op = "query" /\ (last.embed = "error" \/ last.store = "error"))
        => (last.raised /\ last.result = None /\ ~last.llm_called)

\* A synthesizing query over a non-empty corpus whose store search failed.
C11_Witness ==
    /\ last.op = "query"
    /\ corpus # <<>>
    /\ last.synthesize
    /\ last.embed = "ok"
    /\ last.store = "error"
    /\ last.raised
    /\ last.requested > 0

\* C12: when the embedding gateway answers with a vector that does not have
\* the store's dimension, query fails in the embedding step: it raises without
\* having asked the store for anything and returns no result.
C12_EmbeddingLengthValidated ==
    (last.op = "query" /\ last.embed = "wrong_length")
        => (last.raised /\ last.requested = 0 /\ last.result = None)

(***************************************************************************)
(* Synthesis gating                                                        *)
(***************************************************************************)

\* C13: a query call with synthesize false never calls the LLM gateway; a call
\* that returns with synthesize false or with an empty chunk list returns
\* answer "" and has not called the LLM gateway; and on an empty store a call
\* whose embedding and store steps do not fail returns empty chunks, empty
\* citations, confidence 0 and answer "", whatever synthesize is.
C13_SynthesisGating ==
    last.op = "query" =>
        /\ ~last.synthesize => ~last.llm_called
        /\ (~last.raised /\ (~last.synthesize \/ last.result[1].chunks = <<>>))
              => (last.result[1].answer = "" /\ ~last.llm_called)
        /\ (corpus = <<>> /\ last.embed # "error" /\ last.store = "ok")
              => /\ ~last.raised
                 /\ last.result[1].chunks = <<>>
                 /\ last.result[1].citations = <<>>
                 /\ last.result[1].confidence = RZero
                 /\ last.result[1].answer = ""

\* A synthesizing query over a non-empty corpus whose filters left no chunk,
\* with an LLM gateway that would have failed had it been called.
C13_Witness ==
    /\ last.op = "query"
    /\ corpus # <<>>
    /\ last.synthesize
    /\ last.llm = "error"
    /\ ~last.raised
    /\ last.found # <<>>
    /\ last.result[1].chunks = <<>>
    /\ last.result[1].answer = ""

(***************************************************************************)
(* Citations and confidence of a QueryResult                               *)
(***************************************************************************)

\* C15: in every QueryResult, citations is extract(chunks) and confidence is
\* score(chunks) of exactly the returned chunks list, so every citation is
\* the citation of a paper that has a chunk in the returned list.
C15_CitationsOfReturnedChunks ==
    (last.op = "query" /\ ~last.raised)
    => \A res \in {last.result[1]} :
         /\ res.citations = IF last.engine = "neon"
                            THEN Neon_extract_citations(res.chunks)
                            ELSE _extract_citations(res.chunks)
         /\ res.confidence = IF last.engine = "neon"
                             THEN Neon_calculate_confidence(res.chunks)
                             ELSE _calculate_confidence(res.chunks)
         /\ \A k \in 1..Len(res.citations) :
               \E j \in 1..Len(res.chunks) : pmcid(res.chunks[j]) = res.citations[k].pmcid

\* A filtered query whose truncation cut away a chunk of another paper that
\* had passed the filters.
C15_Witness ==
    /\ last.op = "query"
    /\ ~last.raised
    /\ FilterPresent
    /\ Len(ReturnedChunks) = 1
    /\ Len(last.result[1].citations) = 1
    /\ \E i \in 1..Len(last.found) :
          /\ PassesFilters(last.found[i], last.protein_filter, last.theory_filters)
          /\ pmcid(last.found[i]) # pmcid(ReturnedChunks[1])

(***************************************************************************)
(* Truncation                                                              *)
(***************************************************************************)

\* The first n of the hits hs that satisfy the filters of the last call, in
\* the order of hs.
RECURSIVE PassingHits(_, _)
PassingHits(hs, n) ==
    IF n = 0 THEN <<>>
    ELSE IF PassesFilters(hs[n], last.protein_filter, last.theory_filters)
         THEN Append(PassingHits(hs, n - 1), hs[n])
         ELSE PassingHits(hs, n - 1)

\* C16: for every query call that returns, QueryResult.chunks has at most
\* top_k chunks and is the first top_k elements of the filtered hit list (the
\* hits the store returned that satisfy the filters, in the store's order).
C16_TruncatedFilteredPrefix ==
    (last.op = "query" /\ ~last.raised)
    => /\ Len(ReturnedChunks) <= last.top_k
       /\ ReturnedChunks = Prefix(PassingHits(last.found, Len(last.found)), last.top_k)

(***************************************************************************)
(* Citation grouping and order                                             *)
(***************************************************************************)

\* The position in hs of the first hit with pmcid pm.
FirstSeen(hs, pm) == CHOOSE i \in 1..Len(hs) :
    pmcid(hs[i]) = pm /\ \A j \in 1..(i - 1) : pmcid(hs[j]) # pm

\* C17: extract(hits) has exactly one citation for each distinct non-empty
\* pmcid of hits and none for an empty pmcid, and each citation's title, pmid
\* and year are those of the first hit in list order with its pmcid.
C17_CitationGrouping ==
    out.op = "citations"
    => /\ \A i \in 1..Len(hits) :
            pmcid(hits[i]) # ""
            => Cardinality({k \in 1..Len(out.result) : out.result[k].pmcid = pmcid(hits[i])}) = 1
       /\ \A k \in 1..Len(out.result) :
            /\ out.result[k].pmcid # ""
            /\ \E i \in 1..Len(hits) : pmcid(hits[i]) = out.result[k].pmcid
            /\ \A f \in {FirstSeen(hits, out.result[k].pmcid)} :
                  /\ out.result[k].title = title(hits[f])
                  /\ out.result[k].pmid = pmid(hits[f])
                  /\ out.result[k].year = year(hits[f])

\* Citations of a list with a hit without pmcid and two hits of one paper
\* carrying different titles.
C17_Witness ==
    /\ out.op = "citations"
    /\ \E i \in 1..Len(hits) : pmcid(hits[i]) = ""
    /\ \E i, j \in 1..Len(hits) :
          /\ i < j
          /\ pmcid(hits[i]) # ""
          /\ pmcid(hits[i]) = pmcid(hits[j])
          /\ title(hits[i]) # title(hits[j])
    /\ Len(out.result) = 1

\* C18: extract(hits) is sorted by non-increasing relevance_score, and two
\* citations of equal relevance_score appear in the order in which their
\* pmcids were first seen in hits.
C18_CitationOrder ==
    out.op = "citations"
    => \A k, l \in 1..Len(out.result) :
          k < l
          => /\ RLeq(out.result[l].relevance_score, out.result[k].relevance_score)
             /\ out.result[k].relevance_score = out.result[l].relevance_score
                => FirstSeen(hits, out.result[k].pmcid) < FirstSeen(hits, out.result[l].pmcid)

\* Citations of a list whose first hit scores lowest and whose two other
\* papers have equal relevance.
C18_Witness ==
    /\ out.op = "citations"
    /\ Len(out.result) = 2
    /\ Len(hits) = 3
    /\ RLess(hits[1].score, out.result[1].relevance_score)
    /\ out.result[1].relevance_score = out.result[2].relevance_score

(***************************************************************************)
(* Confidence                                                              *)
(***************************************************************************)

\* The arithmetic mean of the scores of the first n hits of hs.
MeanOfFirst(hs, n) == RDiv(RSum([i \in 1..n |-> hs[i].score], n), <<n, 1>>)

\* x brought into [0, 1].
Clamped(x) == IF RLess(x, RZero) THEN RZero ELSE IF RLess(ROne, x) THEN ROne ELSE x

\* C14: score(hits) is 0 for the empty list and otherwise the arithmetic mean
\* of the scores of the first min(3, len(hits)) hits in list order, clamped
\* to [0, 1]; so the result lies in [0, 1] for every hit list, also one with
\* scores outside [0, 1].
C14_ConfidenceClampedMean ==
    out.op = "confidence"
    => /\ hits = <<>> => out.result = RZero
       /\ hits # <<>>
          => out.result = Clamped(MeanOfFirst(hits, IF Len(hits) < 3 THEN Len(hits) ELSE 3))
       /\ RLeq(RZero, out.result)
       /\ RLeq(out.result, ROne)

\* The confidence of four hits whose first three have a mean above 1 and whose
\* fourth, were it counted, would bring the mean below 1.
C14_Witness ==
    /\ out.op = "confidence"
    /\ Len(hits) = 4
    /\ RLess(ROne, MeanOfFirst(hits, 3))
    /\ RLess(MeanOfFirst(hits, 4), ROne)
    /\ out.result = ROne

(***************************************************************************)
(* Order and scores of search results                                      *)
(***************************************************************************)

\* The place of the row with the id in the table, in insertion order.
RowIndex(id) == CHOOSE i \in 1..Len(neon) : neon[i].id = id

\* C19: search returns at most top_k hits in non-increasing score order, and
\* hits of equal score come back in insertion order, the same on every call
\* in one store state.
C19_SearchOrderDeterministic ==
    last.op = "search"
    => /\ Len(last.result) <= last.top_k
       /\ \A i, j \in 1..Len(last.result) :
             i < j
             => /\ RLeq(last.result[j].score, last.result[i].score)
                /\ last.result[i].score = last.result[j].score
                   => RowIndex(last.result[i].id) < RowIndex(last.result[j].id)

\* The vector stored for the chunk the hit was built from.
StoredEmbedding(hit) ==
    corpus[CHOOSE i \in 1..Len(corpus) : corpus[i].id = hit.chunk_id].embedding

\* C20: every hit either backend produces has a similarity score in [0, 1],
\* which is 1 for a stored vector identical to the query vector and 0 for a
\* maximally dissimilar one (cosine distance 2).
C20_ScoreRange ==
    (last.op = "query" /\ ~last.raised)
    => \A j \in 1..Len(last.found) :
          /\ RLeq(RZero, last.found[j].score)
          /\ RLeq(last.found[j].score, ROne)
          /\ StoredEmbedding(last.found[j]) = QueryEmbedding
             => last.found[j].score = ROne
          /\ CosineDistance(StoredEmbedding(last.found[j]), QueryEmbedding) = <<2, 1>>
             => last.found[j].score = RZero

(***************************************************************************)
(* Order of the filtered hits                                              *)
(***************************************************************************)

\* The position of the hit in hs (hits carry distinct chunk ids).
PositionIn(hs, hit) == CHOOSE i \in 1..Len(hs) : hs[i].chunk_id = hit.chunk_id

\* C21: filter(hits, p, T) returns hits of the given list in the relative
\* order they have there (a subsequence), and returns the list unchanged when
\* neither protein_filter nor theory_filters is supplied.
C21_FilterKeepsOrder ==
    out.op = "filter"
    => /\ \A k \in 1..Len(out.result) : \E i \in 1..Len(hits) : hits[i] = out.result[k]
       /\ \A k, l \in 1..Len(out.result) :
             k < l => PositionIn(hits, out.result[k]) < PositionIn(hits, out.result[l])
       /\ (~TruthyStr(out.protein_filter) /\ ~TruthyList(out.theory_filters))
             => out.result = hits

\* A filter dropped the hit between two survivors.
C21_Witness ==
    /\ out.op = "filter"
    /\ TruthyStr(out.protein_filter)
    /\ TruthyList(out.theory_filters)
    /\ Len(hits) = 3
    /\ Len(out.result) = 2
    /\ out.result[1] = hits[1]
    /\ out.result[2] = hits[3]

(***************************************************************************)
(* Aggregation                                                             *)
(***************************************************************************)

\* The rank of the string in Python's string order.
StringRank(x) == CHOOSE i \in 1..Len(StringOrder) : StringOrder[i] = x

\* The list has no duplicates and is in ascending string order.
StrictlyAscending(xs) == \A k, l \in 1..Len(xs) : k < l => StringRank(xs[k]) < StringRank(xs[l])

\* C22: in every QueryResult, proteins_mentioned and theories_identified are
\* the deduplicated, sorted unions of the proteins_mentioned and
\* aging_theories of the chunks in QueryResult.chunks, and of nothing else.
C22_AggregationOfReturnedChunks ==
    (last.op = "query" /\ ~last.raised)
    => \A res \in {last.result[1]} :
         /\ Range(res.proteins_mentioned)
              = UNION {Range(ChunkProteins(res.chunks[j])) : j \in 1..Len(res.chunks)}
         /\ Range(res.theories_identified)
              = UNION {Range(ChunkTheories(res.chunks[j])) : j \in 1..Len(res.chunks)}
         /\ StrictlyAscending(res.proteins_mentioned)
         /\ StrictlyAscending(res.theories_identified)

\* The truncation cut away a hit that had passed the filter and whose
\* theories no returned chunk has; the returned chunk has two theories.
C22_Witness ==
    /\ last.op = "query"
    /\ ~last.raised
    /\ FilterPresent
    /\ Len(ReturnedChunks) = 1
    /\ Len(last.result[1].theories_identified) = 2
    /\ \E i \in 1..Len(last.found) :
          /\ PassesFilters(last.found[i], last.protein_filter, last.theory_filters)
          /\ \E t \in Range(ChunkTheories(last.found[i])) :
                t \notin Range(last.result[1].theories_identified)

(***************************************************************************)
(* Store cardinality                                                       *)
(***************************************************************************)

\* The ids of the rows of a table, or of the chunks of a call.
IdsIn(rows) == {rows[i].id : i \in 1..Len(rows)}

\* C23: count() is the number of distinct chunk ids upserted since the most
\* recent clear. Step by step: the table starts empty; a successful add_chunks
\* adds the ids of its chunks to the ids stored; a failed add_chunks, a search
\* and a count leave them as they are; a delete_all leaves none, so that
\* count() is 0 and search returns no hits; and count() is always the number
\* of distinct ids stored.
C23_StoreCardinality ==
    [][/\ count(neon') = Cardinality(IdsIn(neon'))
       /\ (last'.op = "add_chunks" /\ ~last'.raised)
             => IdsIn(neon') = IdsIn(neon) \cup IdsIn(last'.chunks)
       /\ (last'.op = "add_chunks" /\ last'.raised) => IdsIn(neon') = IdsIn(neon)
       /\ last'.op \in {"search", "count"} => IdsIn(neon') = IdsIn(neon)
       /\ last'.op = "count" => last'.result = Cardinality(IdsIn(neon))
       /\ last'.op = "delete_all"
             => /\ count(neon') = 0
                /\ search(neon', QueryEmbedding, MaxBatch, None, None) = <<>>]_vars

\* A clear of a table of two rows, after which nothing is stored.
C23_Witness ==
    /\ last.op = "delete_all"
    /\ count(last.before) = 2
    /\ count(neon) = 0

(***************************************************************************)
(* add_chunks as one transaction                                           *)
(***************************************************************************)

\* The b-th batch (from 0) of a call: chunks[b * batch_size : (b + 1) * batch_size].
BatchOf(chunks, batch_size, b) ==
    SubSeq(chunks, b * batch_size + 1,
           IF (b + 1) * batch_size < Len(chunks) THEN (b + 1) * batch_size ELSE Len(chunks))

\* One of the batches of the call is a statement the database rejects.
SomeBatchFails(chunks, batch_size) ==
    \E b \in 0..Len(chunks) : StatementFails(BatchOf(chunks, batch_size, b))

\* C29: an add_chunks call one of whose batches raises persists no chunk of
\* the call: the table, and so count() and every row, is as before the call.
\* A call none of whose batches raises returns len(chunks) and leaves every
\* chunk of the call stored (under a repeated id, the last one).
C29_AddChunksAllOrNothing ==
    last.op = "add_chunks"
    => /\ last.raised = SomeBatchFails(last.chunks, last.batch_size)
       /\ last.raised => neon = last.before
       /\ ~last.raised
          => /\ last.returned = Len(last.chunks)
             /\ \A k \in 1..Len(last.chunks) :
                   \E i \in 1..Len(neon) :
                      neon[i] = RowOf(LastWritten(last.chunks, last.chunks[k].id))

\* A call in batches of one whose first batch overwrote a stored row and
\* whose second batch failed: the row still has its old text.
C29_Witness ==
    /\ last.op = "add_chunks"
    /\ last.batch_size = 1
    /\ Len(last.chunks) = 2
    /\ last.raised
    /\ last.chunks[1].text = "new text"
    /\ \E i \in 1..Len(neon) :
          /\ neon[i].id = last.chunks[1].id
          /\ neon[i].text = "old text"

(***************************************************************************)
(* Batch history of the statistics tracker                                 *)
(***************************************************************************)

\* C30: on a tracker that started empty, every update_batch call raises
\* total_batches by one and every reset sets it to 0 and empties the history,
\* so total_batches counts the update_batch calls since creation or the last
\* reset; the history holds the most recent min(total_batches, 100) updates
\* in call order: its last record is the record of the call just made, the
\* records before it are the latest of the earlier history, and the
\* batch_number values are consecutive and end at total_batches.
C30_BatchHistory ==
    [][/\ last'.op = "update_batch"
          => /\ tracker'.total_batches = tracker.total_batches + 1
             /\ tracker'.batches[Len(tracker'.batches)]
                  = BatchRecord(tracker'.total_batches, last'.batch_stats)
             /\ \A i \in 1..(Len(tracker'.batches) - 1) :
                   tracker'.batches[i]
                     = tracker.batches[Len(tracker.batches) - (Len(tracker'.batches) - 1) + i]
       /\ last'.op = "reset"
          => (tracker'.total_batches = 0 /\ tracker'.batches = <<>>)
       /\ Len(tracker'.batches)
            = (IF tracker'.total_batches < 100 THEN tracker'.total_batches ELSE 100)
       /\ \A i \in 1..Len(tracker'.batches) :
             tracker'.batches[i].batch_number
               = tracker'.total_batches - Len(tracker'.batches) + i]_vars

\* The update after the hundredth: the history still has a hundred records
\* and its oldest one is the second update's.
C30_Witness ==
    /\ last.op = "update_batch"
    /\ tracker.total_batches = 101
    /\ Len(tracker.batches) = 100
    /\ tracker.batches[1].batch_number = 2
    /\ tracker.batches[100].batch_number = 101

(***************************************************************************)
(* UniProt rate limiting                                                   *)
(***************************************************************************)

\* C26: any two HTTP requests one UniProtClient sends start at least
\* rate_limit_delay apart, also when get_protein is called from several
\* threads at the same time, and a get_protein call served from a valid
\* cache entry sends no request.
C26_RequestsSpaced ==
    /\ \A i, j \in 1..Len(uniprot.requests) :
          i < j => uniprot.requests[j].time - uniprot.requests[i].time >= rate_limit_delay
    /\ (last.op = "get_protein" /\ last.cached) => last.sent = 0

(***************************************************************************)
(* Migration                                                               *)
(***************************************************************************)

\* C27: whenever migrate_chroma_to_neon finishes without error, every chunk
\* id of the ChromaDB collection exists in NeonDB, whatever rows the table
\* held before the run.
C27_MigrationComplete ==
    (migration.pc = "done" /\ migration.status \in {"exit 0", "returned"})
       => \A i \in 1..Len(chroma) : chroma[i].id \in IdsIn(neon)

(***************************************************************************)
(* Run-all indexing                                                        *)
(***************************************************************************)

\* C28: when index_run_all returns status ok, every JSON file of the papers
\* directory was in the files of exactly one index_chroma_batch call, and
\* the returned indexed value is the number of files indexed and equals
\* total.
C28_RunAllCoverage ==
    (indexer.pc = "done" /\ indexer.status = "ok")
       => /\ \A i \in 1..Len(indexer.papers) :
                Cardinality({b \in 1..Len(indexer.batches) :
                                indexer.papers[i].name \in indexer.batches[b]}) = 1
          /\ last.indexed = Cardinality(indexer.stored)
          /\ last.indexed = Len(indexer.papers)

(***************************************************************************)
(* Query independence                                                      *)
(***************************************************************************)

WholeHit(hit, chunk) ==
    /\ hit.id = chunk.id
    /\ ReadsAs(hit, chunk)
    /\ hit.score = RSub(ROne, CosineDistance(chunk.embedding, QueryEmbedding))

\* C24: every hit of a search that overlaps add_chunks calls and other
\* searches shows one written chunk whole, in the version that was committed
\* when the search started, and the search returns what a search alone on
\* that table returns.
C24_NoTornRows ==
    last.op = "search" =>
       /\ \A k \in 1..Len(last.result) :
             \E chunk \in StoreChunks :
                /\ WholeHit(last.result[k], chunk)
                /\ RowOf(chunk) \in Range(last.snapshot)
       /\ last.result = search(last.snapshot, QueryEmbedding, last.top_k, None, None)

\* A search returns c1 while the other search is running, and an add_chunks
\* call that changed c1 committed after the search started.
C24_Witness ==
    /\ last.op = "search"
    /\ last.overlapped
    /\ \E r \in Readers : sessions.readers[r].pc = "select"
    /\ \E k \in 1..Len(last.result) :
          /\ last.result[k].id = "c1"
          /\ \E i \in 1..Len(neon) : neon[i].id = "c1" /\ neon[i] \notin Range(last.snapshot)

====
